---- MODULE Spec2Model ----
(***************************************************************************)
(* Dialogue engine of tgbot-electro-tools: rate limiter, lead-capture      *)
(* overlay, diagnostic session and the callback protocol, modelled from    *)
(* internal/bot/bot.go (latest snapshot, lines 873-1662),                  *)
(* internal/fsm/fsm.go, internal/storage/storage.go and the migrations.    *)
(*                                                                         *)
(* Bot.Start hands every update to a goroutine of its own and nothing      *)
(* orders the goroutines, so the unit of the model is one storage          *)
(* statement, one Send or one clock read of one goroutine: proc holds the  *)
(* goroutines in flight with their program counters and locals.            *)
(*                                                                         *)
(* Strings.  A Go string is represented by the sequence of its             *)
(* underscore-free segments, i.e. by strings.Split(s, "_"): "no_power" is  *)
(* <<"no", "power">>, "" is <<"">>.  This is a bijection between strings   *)
(* and non-empty sequences of underscore-free atoms, so Split, SplitN,     *)
(* Join, HasPrefix and TrimPrefix on underscore boundaries are computed    *)
(* exactly.                                                                *)
(***************************************************************************)
EXTENDS Integers, Sequences, FiniteSets, TLC

(***************************************************************************)
(* Bounds of the model.                                                    *)
(***************************************************************************)
\* Bot.rateLimitPerMin, a deployment setting
RateLimitPerMin == 2
\* the clock stops advancing here
MaxTime == 61
\* SpecRate: the calls each goroutine slot makes
MaxCalls == 2
\* SpecFail: the storage writes that return an error
MaxFaults == 1
\* SpecCalls: the segments of a drawn step key, the characters of a drawn
\* address
MaxKeyLen == 3
MaxEmailLen == 7

(***************************************************************************)
(* Program constants.                                                      *)
(***************************************************************************)
\* oneMinuteAgo := now - 60
Window == 60
\* settings.trigger_message_count after migration 006
TriggerMessageCount == 4

Users == {1}

StateIdle == "idle"
StateAwaitingEmail == "awaiting_email"
StateAwaitingEmailConsent == "awaiting_email_consent"
StateOfferingSiteLink == "offering_site_link"
StateOfferingSitePost == "offering_site_post"

(* String helpers on the segment representation.                           *)
(***************************************************************************)
\* strings.Split(s, "_"): every part is itself a string of one segment
Split(s) == [i \in 1..Len(s) |-> <<s[i]>>]

\* strings.SplitN(s, "_", n): at most n parts, the last one is the remainder
SplitN(s, n) ==
    IF Len(s) <= n THEN Split(s)
    ELSE [i \in 1..n |-> IF i < n THEN <<s[i]>> ELSE SubSeq(s, n, Len(s))]

RECURSIVE Join(_)
\* strings.Join(parts, "_")
Join(parts) == IF parts = <<>> THEN <<"">>
               ELSE IF Len(parts) = 1 THEN parts[1]
               ELSE parts[1] \o Join(Tail(parts))

\* strings.HasPrefix(s, p + "_") for a prefix p given by its segments
HasPrefix(s, p) == Len(s) > Len(p) /\ SubSeq(s, 1, Len(p)) = p

\* strings.TrimPrefix(s, p + "_")
TrimPrefix(s, p) == IF HasPrefix(s, p) THEN SubSeq(s, Len(p) + 1, Len(s)) ELSE s

\* strconv.Atoi on the decimal strings the model uses; err gives value 0
Digits == <<"0", "1", "2", "3", "4", "5", "6", "7", "8", "9">>
AtoiOk(s) == Len(s) = 1 /\ \E d \in 1..Len(Digits) : Digits[d] = s[1]
Atoi(s) == IF AtoiOk(s) THEN (CHOOSE d \in 1..Len(Digits) : Digits[d] = s[1]) - 1 ELSE 0
\* the %d verb of fmt.Sprintf
Itoa(n) == <<Digits[n + 1]>>

(***************************************************************************)
(* Text messages.  A text is one atom; CharsOf spells it out so that the   *)
(* keyword match and the email grammar are computed character by           *)
(* character.  A Cyrillic letter is written as "~" and its transliteration *)
(* ("~b" for the letter be), in capitals for the capital letter.           *)
(***************************************************************************)
TextGrinder == "bolgarka ne vklyuchaetsya"
TextSaw == "Miter Saw"
TextJigsaw == "Nuzhen Lobzik"
TextHello == "hello"
TextEmail == "user@example.com"
TextNotEmail == "not-an-email"
TextStart == "/start"
Texts == {TextGrinder, TextSaw, TextJigsaw, TextHello, TextEmail, TextNotEmail}

CharsOf(t) ==
    CASE t = TextGrinder -> <<"~b", "~o", "~l", "~g", "~a", "~r", "~k", "~a", " ", "~n", "~e", " ",
                              "~v", "~k", "~l", "~yu", "~ch", "~a", "~e", "~t", "~s", "~ya">>
      [] t = TextSaw -> <<"M", "i", "t", "e", "r", " ", "S", "a", "w">>
      [] t = TextJigsaw -> <<"~N", "~u", "~zh", "~e", "~n", " ", "~L", "~o", "~b", "~z", "~i", "~k">>
      [] t = TextHello -> <<"h", "e", "l", "l", "o">>
      [] t = TextEmail -> <<"u", "s", "e", "r", "@", "e", "x", "a", "m", "p", "l", "e", ".", "c", "o", "m">>
      [] t = TextNotEmail -> <<"n", "o", "t", "-", "a", "n", "-", "e", "m", "a", "i", "l">>
      [] OTHER -> <<>>

\* the capital letters, Latin and Cyrillic, and their small letters
UpperChars ==
    <<"A", "B", "C", "D", "E", "F", "G", "H", "I", "J", "K", "L", "M", "N", "O", "P", "Q",
    "R", "S", "T", "U", "V", "W", "X", "Y", "Z", "~A", "~B", "~V", "~G", "~D", "~E", "~YO",
    "~ZH", "~Z", "~I", "~J", "~K", "~L", "~M", "~N", "~O", "~P", "~R", "~S", "~T", "~U",
    "~F", "~H", "~C", "~CH", "~SH", "~SHCH", "~HARD", "~Y", "~SOFT", "~EH", "~YU", "~YA">>
LowerChars ==
    <<"a", "b", "c", "d", "e", "f", "g", "h", "i", "j", "k", "l", "m", "n", "o", "p", "q",
    "r", "s", "t", "u", "v", "w", "x", "y", "z", "~a", "~b", "~v", "~g", "~d", "~e", "~yo",
    "~zh", "~z", "~i", "~j", "~k", "~l", "~m", "~n", "~o", "~p", "~r", "~s", "~t", "~u",
    "~f", "~h", "~c", "~ch", "~sh", "~shch", "~hard", "~y", "~soft", "~eh", "~yu", "~ya">>

\* strings.ToLower
ToLowerChar(c) ==
    IF \E i \in 1..Len(UpperChars) : UpperChars[i] = c
    THEN LowerChars[CHOOSE i \in 1..Len(UpperChars) : UpperChars[i] = c]
    ELSE c
ToLower(cs) == [i \in 1..Len(cs) |-> ToLowerChar(cs[i])]

\* strings.Contains
Contains(hay, needle) ==
    \E i \in 0..(Len(hay) - Len(needle)) : SubSeq(hay, i + 1, i + Len(needle)) = needle

(***************************************************************************)
(* The diagnostic trees (fsm_scenarios, fsm_steps), in id order: the five  *)
(* scenarios and the 59 steps migration 003 inserts, with state_type as    *)
(* migration 004 assigns it (root: start, is_final: final, every other     *)
(* step: intermediate) and next_step_key as fix_fsm_next_steps.sql leaves  *)
(* it once all its updates have run.  No statement of the program writes   *)
(* these tables, so a read of them is not a step of its own.               *)
(***************************************************************************)
NoKey == <<>>     \* SQL NULL in a text column holding a step key

FSMScenarios == <<
    [id |-> 1, name |-> "diagnose_angle_grinder",
     trigger_keywords |-> <<
          <<"~u", "~g", "~l", "~o", "~v", "~a", "~ya", " ", "~sh", "~l", "~i", "~f", "~o",
            "~v", "~a", "~l", "~soft", "~n", "~a", "~ya", " ", "~m", "~a", "~sh", "~i",
            "~n", "~a">>,
          <<"~b", "~o", "~l", "~g", "~a", "~r", "~k", "~a">>,
          <<"~u", "~sh", "~m">>,
          <<"a", "n", "g", "l", "e", " ", "g", "r", "i", "n", "d", "e", "r">> >>],
    [id |-> 2, name |-> "diagnose_miter_saw",
     trigger_keywords |-> <<
          <<"~t", "~o", "~r", "~c", "~o", "~v", "~o", "~ch", "~n", "~a", "~ya", " ", "~p",
            "~i", "~l", "~a">>,
          <<"~t", "~o", "~r", "~c", "~o", "~v", "~k", "~a">>,
          <<"m", "i", "t", "e", "r", " ", "s", "a", "w">> >>],
    [id |-> 3, name |-> "diagnose_jigsaw",
     trigger_keywords |-> <<
          <<"~eh", "~l", "~e", "~k", "~t", "~r", "~o", "~l", "~o", "~b", "~z", "~i",
            "~k">>,
          <<"~l", "~o", "~b", "~z", "~i", "~k">>,
          <<"j", "i", "g", "s", "a", "w">> >>],
    [id |-> 4, name |-> "diagnose_cordless_drill",
     trigger_keywords |-> <<
          <<"~a", "~k", "~k", "~u", "~m", "~u", "~l", "~ya", "~t", "~o", "~r", "~n", "~y",
            "~j", " ", "~sh", "~u", "~r", "~u", "~p", "~o", "~v", "~yo", "~r", "~t">>,
          <<"~sh", "~u", "~r", "~u", "~p", "~o", "~v", "~yo", "~r", "~t">>,
          <<"c", "o", "r", "d", "l", "e", "s", "s", " ", "s", "c", "r", "e", "w", "d",
            "r", "i", "v", "e", "r">> >>],
    [id |-> 5, name |-> "diagnose_corded_lawnmower",
     trigger_keywords |-> <<
          <<"~p", "~r", "~o", "~v", "~o", "~d", "~n", "~a", "~ya", " ", "~g", "~a", "~z",
            "~o", "~n", "~o", "~k", "~o", "~s", "~i", "~l", "~k", "~a">>,
          <<"~g", "~a", "~z", "~o", "~n", "~o", "~k", "~o", "~s", "~i", "~l", "~k", "~a">>,
          <<"l", "a", "w", "n", " ", "m", "o", "w", "e", "r">> >>] >>

FSMSteps == <<
    [scenario_id |-> 1, step_key |-> <<"root">>,
     is_final |-> FALSE, next_step_key |-> <<"no", "power">>,
     state_type |-> "start"],
    [scenario_id |-> 1, step_key |-> <<"no", "power">>,
     is_final |-> FALSE, next_step_key |-> <<"no", "power", "action">>,
     state_type |-> "intermediate"],
    [scenario_id |-> 1, step_key |-> <<"no", "power", "indicator", "lit">>,
     is_final |-> FALSE, next_step_key |-> <<"no", "power", "indicator", "lit", "reacts">>,
     state_type |-> "intermediate"],
    [scenario_id |-> 1, step_key |-> <<"no", "power", "indicator", "lit", "reacts">>,
     is_final |-> FALSE, next_step_key |-> <<"no", "power", "indicator", "lit", "reacts", "disk", "turns">>,
     state_type |-> "intermediate"],
    [scenario_id |-> 1, step_key |-> <<"no", "power", "indicator", "lit", "reacts", "disk", "turns">>,
     is_final |-> TRUE, next_step_key |-> NoKey,
     state_type |-> "final"],
    [scenario_id |-> 1, step_key |-> <<"no", "power", "indicator", "lit", "reacts", "disk", "stuck">>,
     is_final |-> TRUE, next_step_key |-> NoKey,
     state_type |-> "final"],
    [scenario_id |-> 1, step_key |-> <<"no", "power", "indicator", "lit", "no", "reaction">>,
     is_final |-> TRUE, next_step_key |-> NoKey,
     state_type |-> "final"],
    [scenario_id |-> 1, step_key |-> <<"no", "power", "indicator", "dark">>,
     is_final |-> TRUE, next_step_key |-> NoKey,
     state_type |-> "final"],
    [scenario_id |-> 1, step_key |-> <<"stops", "during", "work">>,
     is_final |-> FALSE, next_step_key |-> <<"stopped", "action">>,
     state_type |-> "intermediate"],
    [scenario_id |-> 1, step_key |-> <<"stops", "immediately">>,
     is_final |-> TRUE, next_step_key |-> <<"stops", "after", "time">>,
     state_type |-> "final"],
    [scenario_id |-> 1, step_key |-> <<"stops", "after", "time">>,
     is_final |-> FALSE, next_step_key |-> <<"stops", "after", "time", "hot">>,
     state_type |-> "intermediate"],
    [scenario_id |-> 1, step_key |-> <<"stops", "after", "time", "hot">>,
     is_final |-> TRUE, next_step_key |-> NoKey,
     state_type |-> "final"],
    [scenario_id |-> 1, step_key |-> <<"stops", "after", "time", "not", "hot">>,
     is_final |-> TRUE, next_step_key |-> NoKey,
     state_type |-> "final"],
    [scenario_id |-> 1, step_key |-> <<"vibration", "noise">>,
     is_final |-> FALSE, next_step_key |-> NoKey,
     state_type |-> "intermediate"],
    [scenario_id |-> 1, step_key |-> <<"strong", "vibration">>,
     is_final |-> TRUE, next_step_key |-> NoKey,
     state_type |-> "final"],
    [scenario_id |-> 1, step_key |-> <<"grinding", "noise">>,
     is_final |-> TRUE, next_step_key |-> NoKey,
     state_type |-> "final"],
    [scenario_id |-> 1, step_key |-> <<"other", "noise">>,
     is_final |-> TRUE, next_step_key |-> NoKey,
     state_type |-> "final"],
    [scenario_id |-> 2, step_key |-> <<"root">>,
     is_final |-> FALSE, next_step_key |-> <<"no", "power">>,
     state_type |-> "start"],
    [scenario_id |-> 2, step_key |-> <<"no", "power">>,
     is_final |-> FALSE, next_step_key |-> <<"no", "power", "action">>,
     state_type |-> "intermediate"],
    [scenario_id |-> 2, step_key |-> <<"no", "power", "power", "ok">>,
     is_final |-> FALSE, next_step_key |-> <<"no", "power", "power", "ok", "locks", "ok">>,
     state_type |-> "intermediate"],
    [scenario_id |-> 2, step_key |-> <<"no", "power", "power", "ok", "locks", "ok">>,
     is_final |-> TRUE, next_step_key |-> NoKey,
     state_type |-> "final"],
    [scenario_id |-> 2, step_key |-> <<"no", "power", "power", "ok", "locks", "not", "ok">>,
     is_final |-> TRUE, next_step_key |-> NoKey,
     state_type |-> "final"],
    [scenario_id |-> 2, step_key |-> <<"no", "power", "no", "power">>,
     is_final |-> TRUE, next_step_key |-> <<"no", "power", "power", "ok">>,
     state_type |-> "final"],
    [scenario_id |-> 2, step_key |-> <<"motor", "runs", "no", "blade">>,
     is_final |-> FALSE, next_step_key |-> <<"motor", "no", "blade", "action">>,
     state_type |-> "intermediate"],
    [scenario_id |-> 2, step_key |-> <<"motor", "runs", "no", "blade", "belt", "ok">>,
     is_final |-> TRUE, next_step_key |-> NoKey,
     state_type |-> "final"],
    [scenario_id |-> 2, step_key |-> <<"motor", "runs", "no", "blade", "belt", "broken">>,
     is_final |-> TRUE, next_step_key |-> <<"motor", "runs", "no", "blade", "belt", "ok">>,
     state_type |-> "final"],
    [scenario_id |-> 2, step_key |-> <<"vibration", "inaccurate">>,
     is_final |-> FALSE, next_step_key |-> <<"vibration", "action">>,
     state_type |-> "intermediate"],
    [scenario_id |-> 2, step_key |-> <<"vibration", "inaccurate", "disk", "ok">>,
     is_final |-> TRUE, next_step_key |-> NoKey,
     state_type |-> "final"],
    [scenario_id |-> 2, step_key |-> <<"vibration", "inaccurate", "disk", "problem">>,
     is_final |-> TRUE, next_step_key |-> <<"vibration", "inaccurate", "disk", "ok">>,
     state_type |-> "final"],
    [scenario_id |-> 3, step_key |-> <<"root">>,
     is_final |-> FALSE, next_step_key |-> <<"no", "power">>,
     state_type |-> "start"],
    [scenario_id |-> 3, step_key |-> <<"no", "power">>,
     is_final |-> FALSE, next_step_key |-> <<"no", "power", "action">>,
     state_type |-> "intermediate"],
    [scenario_id |-> 3, step_key |-> <<"no", "power", "power", "ok">>,
     is_final |-> TRUE, next_step_key |-> NoKey,
     state_type |-> "final"],
    [scenario_id |-> 3, step_key |-> <<"no", "power", "no", "power">>,
     is_final |-> TRUE, next_step_key |-> <<"no", "power", "power", "ok">>,
     state_type |-> "final"],
    [scenario_id |-> 3, step_key |-> <<"blade", "no", "move">>,
     is_final |-> FALSE, next_step_key |-> <<"blade", "not", "moving", "action">>,
     state_type |-> "intermediate"],
    [scenario_id |-> 3, step_key |-> <<"blade", "no", "move", "blade", "ok">>,
     is_final |-> TRUE, next_step_key |-> NoKey,
     state_type |-> "final"],
    [scenario_id |-> 3, step_key |-> <<"blade", "no", "move", "blade", "not", "ok">>,
     is_final |-> TRUE, next_step_key |-> <<"blade", "no", "move", "blade", "ok">>,
     state_type |-> "final"],
    [scenario_id |-> 3, step_key |-> <<"vibration", "drift">>,
     is_final |-> FALSE, next_step_key |-> <<"vibration", "drift", "action">>,
     state_type |-> "intermediate"],
    [scenario_id |-> 3, step_key |-> <<"vibration", "drift", "blade", "ok">>,
     is_final |-> TRUE, next_step_key |-> NoKey,
     state_type |-> "final"],
    [scenario_id |-> 3, step_key |-> <<"vibration", "drift", "blade", "problem">>,
     is_final |-> TRUE, next_step_key |-> <<"vibration", "drift", "blade", "ok">>,
     state_type |-> "final"],
    [scenario_id |-> 4, step_key |-> <<"root">>,
     is_final |-> FALSE, next_step_key |-> <<"no", "power">>,
     state_type |-> "start"],
    [scenario_id |-> 4, step_key |-> <<"no", "power">>,
     is_final |-> FALSE, next_step_key |-> <<"no", "power", "action">>,
     state_type |-> "intermediate"],
    [scenario_id |-> 4, step_key |-> <<"no", "power", "indicator", "lit">>,
     is_final |-> TRUE, next_step_key |-> NoKey,
     state_type |-> "final"],
    [scenario_id |-> 4, step_key |-> <<"no", "power", "indicator", "dark">>,
     is_final |-> TRUE, next_step_key |-> <<"no", "power", "indicator", "lit">>,
     state_type |-> "final"],
    [scenario_id |-> 4, step_key |-> <<"spins", "no", "torque">>,
     is_final |-> FALSE, next_step_key |-> <<"spins", "no", "torque", "action">>,
     state_type |-> "intermediate"],
    [scenario_id |-> 4, step_key |-> <<"spins", "no", "torque", "clutch", "ok">>,
     is_final |-> TRUE, next_step_key |-> NoKey,
     state_type |-> "final"],
    [scenario_id |-> 4, step_key |-> <<"spins", "no", "torque", "clutch", "triggered">>,
     is_final |-> TRUE, next_step_key |-> <<"spins", "no", "torque", "clutch", "ok">>,
     state_type |-> "final"],
    [scenario_id |-> 4, step_key |-> <<"battery", "drains">>,
     is_final |-> FALSE, next_step_key |-> <<"battery", "drains", "action">>,
     state_type |-> "intermediate"],
    [scenario_id |-> 4, step_key |-> <<"battery", "drains", "old">>,
     is_final |-> TRUE, next_step_key |-> NoKey,
     state_type |-> "final"],
    [scenario_id |-> 4, step_key |-> <<"battery", "drains", "new">>,
     is_final |-> TRUE, next_step_key |-> <<"battery", "drains", "old">>,
     state_type |-> "final"],
    [scenario_id |-> 5, step_key |-> <<"root">>,
     is_final |-> FALSE, next_step_key |-> <<"no", "power">>,
     state_type |-> "start"],
    [scenario_id |-> 5, step_key |-> <<"no", "power">>,
     is_final |-> FALSE, next_step_key |-> <<"no", "power", "action">>,
     state_type |-> "intermediate"],
    [scenario_id |-> 5, step_key |-> <<"no", "power", "power", "ok">>,
     is_final |-> TRUE, next_step_key |-> NoKey,
     state_type |-> "final"],
    [scenario_id |-> 5, step_key |-> <<"no", "power", "no", "power">>,
     is_final |-> TRUE, next_step_key |-> <<"no", "power", "power", "ok">>,
     state_type |-> "final"],
    [scenario_id |-> 5, step_key |-> <<"motor", "runs", "no", "blade">>,
     is_final |-> FALSE, next_step_key |-> <<"motor", "no", "blade", "action", "lawnmower">>,
     state_type |-> "intermediate"],
    [scenario_id |-> 5, step_key |-> <<"motor", "runs", "no", "blade", "clear">>,
     is_final |-> TRUE, next_step_key |-> NoKey,
     state_type |-> "final"],
    [scenario_id |-> 5, step_key |-> <<"motor", "runs", "no", "blade", "blocked">>,
     is_final |-> TRUE, next_step_key |-> <<"motor", "runs", "no", "blade", "clear">>,
     state_type |-> "final"],
    [scenario_id |-> 5, step_key |-> <<"uneven", "vibration">>,
     is_final |-> FALSE, next_step_key |-> <<"uneven", "cut", "action">>,
     state_type |-> "intermediate"],
    [scenario_id |-> 5, step_key |-> <<"uneven", "vibration", "wheels", "ok">>,
     is_final |-> TRUE, next_step_key |-> NoKey,
     state_type |-> "final"],
    [scenario_id |-> 5, step_key |-> <<"uneven", "vibration", "wheels", "not", "level">>,
     is_final |-> TRUE, next_step_key |-> <<"uneven", "vibration", "wheels", "ok">>,
     state_type |-> "final"] >>

NoStep == [scenario_id |-> 0, step_key |-> NoKey, is_final |-> FALSE,
           next_step_key |-> NoKey, state_type |-> ""]
NoScenario == [id |-> 0, name |-> "", trigger_keywords |-> <<>>]

\* SELECT ... FROM fsm_scenarios ORDER BY id
GetFSMScenarios == FSMScenarios

\* SELECT ... FROM fsm_scenarios WHERE id = $1
GetFSMScenario(id) ==
    IF \E i \in 1..Len(FSMScenarios) : FSMScenarios[i].id = id
    THEN FSMScenarios[CHOOSE i \in 1..Len(FSMScenarios) : FSMScenarios[i].id = id]
    ELSE NoScenario

\* SELECT ... FROM fsm_steps WHERE scenario_id = $1 ORDER BY id
GetFSMScenarioSteps(scenarioID) ==
    SelectSeq(FSMSteps, LAMBDA st : st.scenario_id = scenarioID)

\* SELECT ... FROM fsm_steps WHERE scenario_id = $1 AND step_key = $2
GetFSMScenarioStep(scenarioID, stepKey) ==
    IF \E i \in 1..Len(FSMSteps) :
          FSMSteps[i].scenario_id = scenarioID /\ FSMSteps[i].step_key = stepKey
    THEN FSMSteps[CHOOSE i \in 1..Len(FSMSteps) :
          FSMSteps[i].scenario_id = scenarioID /\ FSMSteps[i].step_key = stepKey]
    ELSE NoStep

\* a scenario matches when the lower-cased message contains one of its keywords
KeywordMatch(sc, text) ==
    \E k \in 1..Len(sc.trigger_keywords) :
        Contains(ToLower(CharsOf(text)), ToLower(sc.trigger_keywords[k]))

\* the first scenario, in id order, one of whose trigger keywords occurs in the message
GetFSMScenarioByTrigger(text) ==
    IF \E i \in 1..Len(FSMScenarios) : KeywordMatch(FSMScenarios[i], text)
    THEN FSMScenarios[CHOOSE i \in 1..Len(FSMScenarios) :
            /\ KeywordMatch(FSMScenarios[i], text)
            /\ \A j \in 1..(i - 1) : ~KeywordMatch(FSMScenarios[j], text)]
    ELSE NoScenario

(***************************************************************************)
(* The email grammar.                                                      *)
(***************************************************************************)
Letters == {"a", "b", "c", "d", "e", "f", "g", "h", "i", "j", "k", "l", "m",
            "n", "o", "p", "q", "r", "s", "t", "u", "v", "w", "x", "y", "z",
            "A", "B", "C", "D", "E", "F", "G", "H", "I", "J", "K", "L", "M",
            "N", "O", "P", "Q", "R", "S", "T", "U", "V", "W", "X", "Y", "Z"}
DigitChars == {"0", "1", "2", "3", "4", "5", "6", "7", "8", "9"}
LocalChars == Letters \cup DigitChars \cup {".", "_", "%", "+", "-"}
DomainChars == Letters \cup DigitChars \cup {".", "-"}

RECURSIVE TrimLeft(_)
TrimLeft(cs) == IF cs # <<>> /\ Head(cs) = " " THEN TrimLeft(Tail(cs)) ELSE cs
RECURSIVE TrimRight(_)
TrimRight(cs) == IF cs # <<>> /\ cs[Len(cs)] = " "
                 THEN TrimRight(SubSeq(cs, 1, Len(cs) - 1)) ELSE cs
\* strings.TrimSpace
TrimSpace(cs) == TrimRight(TrimLeft(cs))

AllIn(cs, from, to, set) == \A i \in from..to : cs[i] \in set

\* the pattern with {1,} in place of {2,}
MatchEmailShortTLD(cs) ==
    \E at \in 2..Len(cs) : \E dot \in (at + 2)..(Len(cs) - 1) :
        /\ cs[at] = "@"
        /\ cs[dot] = "."
        /\ AllIn(cs, 1, at - 1, LocalChars)
        /\ AllIn(cs, at + 1, dot - 1, DomainChars)
        /\ AllIn(cs, dot + 1, Len(cs), Letters)

\* ^[a-zA-Z0-9._%+\-]+@[a-zA-Z0-9.\-]+\.[a-zA-Z]{2,}$ on the trimmed characters
MatchEmail(cs) ==
    \E at \in 2..Len(cs) : \E dot \in (at + 2)..(Len(cs) - 2) :
        /\ cs[at] = "@"
        /\ cs[dot] = "."
        /\ AllIn(cs, 1, at - 1, LocalChars)
        /\ AllIn(cs, at + 1, dot - 1, DomainChars)
        /\ AllIn(cs, dot + 1, Len(cs), Letters)

\* IsValidEmail on the characters of its argument
IsValidEmailString(cs) == MatchEmail(TrimSpace(cs))

IsValidEmail(text) == IsValidEmailString(CharsOf(text))

(***************************************************************************)
(* State.                                                                  *)
(***************************************************************************)
VARIABLES
    now,            \* time.Now().Unix()
    rate_limits,    \* rate_limits.message_timestamps per telegram_id
    users,          \* the users table, one row per telegram_id
    user_sessions,  \* the user_sessions table, one row per user_id
    settings,       \* the settings row (id = 1)
    openAIEnabled,  \* FSM.openAIEnabled with a key configured, fixed at construction
    proc,           \* the goroutines of Bot.Start: position, locals, what each did
    budget,         \* the updates still to arrive per goroutine slot, the faults left
    admitted,       \* history: the times at which CheckRateLimit admitted, per user
    ev              \* SpecCalls: the call of a pure function made, with its result

vars == <<now, rate_limits, users, user_sessions, settings, openAIEnabled, proc, budget,
          admitted, ev>>

\* SQL NULL in users.email, a column without NOT NULL and without a default
NullEmail == <<>>

NoUser == [exists |-> FALSE, message_count |-> 0, fsm_state |-> StateIdle,
           email |-> NullEmail, consent_granted |-> FALSE]
NoSession == [exists |-> FALSE, scenario_id |-> 0, current_step_key |-> NoKey]

\* no call of a pure function made yet
NoEvent == [path |-> "none", data |-> <<"">>, out |-> <<>>]

(***************************************************************************)
(* Buttons: the callback data the generators of fsm.go put on a keyboard.  *)
(***************************************************************************)
\* fmt.Sprintf("goto_%d_%s", scenarioID, step.StepKey)
GotoToken(scenarioID, stepKey) == <<"goto">> \o Itoa(scenarioID) \o stepKey

\* fmt.Sprintf("back_%d_%s", scenarioID, step.StepKey)
BackToken(scenarioID, stepKey) == <<"back">> \o Itoa(scenarioID) \o stepKey

\* fmt.Sprintf("start_scenario_%d", scenario.ID)
StartScenarioToken(scenarioID) == <<"start", "scenario">> \o Itoa(scenarioID)

\* the suffixes for which getDiagnosticButtons has a button text
KnownSuffixes ==
    {<<"lit">>, <<"ok">>, <<"yes">>, <<"reacts">>, <<"turns">>, <<"disk", "turns">>,
     <<"dark">>, <<"no">>, <<"not", "ok">>, <<"no", "reaction">>, <<"disk", "stuck">>,
     <<"immediately">>, <<"hot">>, <<"not", "hot">>, <<"strong", "vibration">>,
     <<"grinding", "noise">>, <<"other", "noise">>, <<"power", "ok">>, <<"no", "power">>,
     <<"locks", "ok">>, <<"locks", "not", "ok">>, <<"belt", "ok">>, <<"belt", "broken">>,
     <<"disk", "ok">>, <<"disk", "problem">>, <<"blade", "ok">>, <<"blade", "not", "ok">>,
     <<"clutch", "ok">>, <<"clutch", "triggered">>, <<"old">>, <<"new">>, <<"clear">>,
     <<"blocked">>, <<"wheels", "ok">>, <<"wheels", "not", "level">>}

\* the step keys getProblemButtons offers from the root
ProblemKeywords ==
    {<<"no", "power">>, <<"stops", "during", "work">>, <<"vibration", "noise">>,
     <<"motor", "runs", "no", "blade">>, <<"vibration", "inaccurate">>,
     <<"blade", "no", "move">>, <<"vibration", "drift">>, <<"spins", "no", "torque">>,
     <<"battery", "drains">>, <<"uneven", "vibration">>}

\* the callback data of the buttons, in step order
TokensOf(steps) == [i \in 1..Len(steps) |-> GotoToken(steps[i].scenario_id, steps[i].step_key)]

\* getProblemButtons without the keyword filter
getProblemButtonsAll(scenarioID) == TokensOf(GetFSMScenarioSteps(scenarioID))

\* getProblemButtons
getProblemButtons(scenarioID) ==
    TokensOf(SelectSeq(GetFSMScenarioSteps(scenarioID),
                       LAMBDA step : step.step_key \in ProblemKeywords))

\* getDiagnosticButtons with a button for every suffix
getDiagnosticButtonsAnySuffix(scenarioID, currentStepKey) ==
    TokensOf(SelectSeq(GetFSMScenarioSteps(scenarioID),
                       LAMBDA step : HasPrefix(step.step_key, currentStepKey)))

\* getDiagnosticButtons
getDiagnosticButtons(scenarioID, currentStepKey) ==
    TokensOf(SelectSeq(GetFSMScenarioSteps(scenarioID),
                       LAMBDA step : /\ HasPrefix(step.step_key, currentStepKey)
                                     /\ TrimPrefix(step.step_key, currentStepKey)
                                           \in KnownSuffixes))

\* GetScenariosButtons
GetScenariosButtonsFirst == <<StartScenarioToken(GetFSMScenarios[1].id)>>
GetScenariosButtons ==
    [i \in 1..Len(GetFSMScenarios) |-> StartScenarioToken(GetFSMScenarios[i].id)]

\* the numbers of the lines "1.", "2.", "3." in a step's message: no message of
\* migration 003 has such a line
OptionNumbers(stepKey) == <<>>

\* fmt.Sprintf("option_%d_%s_%s", scenarioID, stepKey, parts[0])
OptionToken(scenarioID, stepKey, n) == <<"option">> \o Itoa(scenarioID) \o stepKey \o n

\* parseButtonsFromMessage
parseButtonsFromMessage(scenarioID, stepKey) ==
    [i \in 1..Len(OptionNumbers(stepKey)) |->
        OptionToken(scenarioID, stepKey, OptionNumbers(stepKey)[i])]

\* GenerateButtonsForStep that gives a final step no button
GenerateButtonsForStepNoBack(step, scenarioID) ==
    LET diagnosticButtons == getDiagnosticButtons(scenarioID, step.step_key)
        parsed == parseButtonsFromMessage(scenarioID, step.step_key)
        backButton == BackToken(scenarioID, step.step_key)
    IN CASE step.state_type = "start" ->
              IF step.step_key = <<"root">> THEN getProblemButtons(scenarioID) ELSE parsed
         [] step.state_type = "final" -> <<>>
         [] OTHER ->
              Append(IF diagnosticButtons # <<>> THEN diagnosticButtons ELSE parsed,
                     backButton)

\* GenerateButtonsForStep: the callback data of the step's buttons, in order
GenerateButtonsForStep(step, scenarioID) ==
    LET diagnosticButtons == getDiagnosticButtons(scenarioID, step.step_key)
        parsed == parseButtonsFromMessage(scenarioID, step.step_key)
        backButton == BackToken(scenarioID, step.step_key)
    IN CASE step.state_type = "start" ->
              IF step.step_key = <<"root">> THEN getProblemButtons(scenarioID) ELSE parsed
         [] step.state_type = "final" -> <<backButton>>
         [] OTHER ->
              Append(IF diagnosticButtons # <<>> THEN diagnosticButtons ELSE parsed,
                     backButton)

(***************************************************************************)
(* Replies.  A reply is identified by the function that produces its text; *)
(* a step's message by the step.                                           *)
(***************************************************************************)
Reply(text) == [text |-> text, scenario_id |-> 0, step_key |-> NoKey, buttons |-> <<>>]
\* msg.ReplyMarkup = keyboard
WithButtons(reply, buttons) == [reply EXCEPT !.buttons = buttons]
\* step.Message sent with the step's Back button
StepMessageWithBack(step) ==
    [text |-> "step.Message", scenario_id |-> step.scenario_id,
     step_key |-> step.step_key,
     buttons |-> <<BackToken(step.scenario_id, step.step_key)>>]

\* step.Message without a keyboard
StepMessageOnly(step) == [text |-> "step.Message", scenario_id |-> step.scenario_id,
                          step_key |-> step.step_key, buttons |-> <<>>]
\* step.Message with the keyboard GenerateButtonsForStep gives the step
StepMessage(step) ==
    WithButtons(StepMessageOnly(step), GenerateButtonsForStep(step, step.scenario_id))
GetStartMessage == Reply("GetStartMessage")
\* the start message with the scenario-selection keyboard
ScenarioSelection == WithButtons(GetStartMessage, GetScenariosButtons)
GetSiteLinkOfferMessage == Reply("GetSiteLinkOfferMessage")
\* the offer with its Yes/No keyboard
SiteLinkOffer ==
    WithButtons(GetSiteLinkOfferMessage, <<<<"site", "link", "yes">>, <<"site", "link", "no">>>>)
GetSiteLinkOfferPost == Reply("GetSiteLinkOfferPost")
GetSiteLinkNoPostMessage == Reply("continue consultation")
GetEmailRequestMessage == Reply("GetEmailRequestMessage")
GetEmailConsentMessage == Reply("GetEmailConsentMessage")
\* the consent question with its keyboard
EmailConsentQuestion ==
    WithButtons(GetEmailConsentMessage,
                <<<<"email", "consent", "yes">>, <<"email", "consent", "no">>>>)
GetEmailSavedMessage == Reply("GetEmailSavedMessage")
GetEmailDeclinedMessage == Reply("GetEmailDeclinedMessage")
GetSiteLinkDeclinedMessage == Reply("GetSiteLinkDeclinedMessage")
GetRateLimitMessage == Reply("GetRateLimitMessage")
GenericResponse == Reply("genericResponse")
\* the re-prompt of the email grammar check
EmailRepromptMessage == Reply("enter a correct email address")

(***************************************************************************)
(* Storage statements.  s is the database: s.users, s.sessions, s.rate,    *)
(* plus s.out, the messages the goroutine at work has sent.                *)
(***************************************************************************)
\* b.api.Send(msg)
Send(s, msg) == [s EXCEPT !.out = Append(@, msg)]

\* INSERT INTO users (telegram_id, message_count, fsm_state) VALUES ($1, 0, 'idle')
\* ON CONFLICT (telegram_id) DO NOTHING: email is NULL in the new row
GetOrCreateUser(s, u) ==
    IF s.users[u].exists THEN s
    ELSE [s EXCEPT !.users[u] = [NoUser EXCEPT !.exists = TRUE]]

\* Scan of a users row into User, whose Email is a string: NULL is an error
ScanUser(row) == row.email # NullEmail

\* UPDATE users SET message_count = message_count + 1 WHERE telegram_id = $1
UpdateUserMessageCount(s, u) ==
    IF s.users[u].exists THEN [s EXCEPT !.users[u].message_count = @ + 1] ELSE s

\* UPDATE users SET message_count = 0 WHERE telegram_id = $1
ResetUserMessageCount(s, u) ==
    IF s.users[u].exists THEN [s EXCEPT !.users[u].message_count = 0] ELSE s

\* UPDATE users SET fsm_state = $1, without the WHERE clause
UpdateUserFSMStateAll(s, u, state) ==
    [s EXCEPT !.users = [a \in DOMAIN s.users |->
                            IF s.users[a].exists THEN [s.users[a] EXCEPT !.fsm_state = state]
                            ELSE s.users[a]]]

\* UPDATE users SET fsm_state = $1 WHERE telegram_id = $2
UpdateUserFSMState(s, u, state) ==
    IF s.users[u].exists THEN [s EXCEPT !.users[u].fsm_state = state] ELSE s

\* UPDATE users SET email = $1, consent_granted = $2 WHERE telegram_id = $3
UpdateUserEmail(s, u, email, consentGranted) ==
    IF s.users[u].exists
    THEN [s EXCEPT !.users[u].email = email, !.users[u].consent_granted = consentGranted]
    ELSE s

\* upsert of the user's session row
UpdateUserSession(s, u, scenarioID, stepKey) ==
    [s EXCEPT !.sessions[u] = [exists |-> TRUE, scenario_id |-> scenarioID,
                               current_step_key |-> stepKey]]

\* DELETE FROM user_sessions WHERE user_id = $1
DeleteUserSession(s, u) == [s EXCEPT !.sessions[u] = NoSession]

(***************************************************************************)
(* Statements.  What a handler does after its reads is a list of storage   *)
(* writes and Sends, executed one per step; onerr says what the handler    *)
(* does when the write returns an error: "return", or log it and           *)
(* "continue" with the next statement.                                     *)
(***************************************************************************)
Call(op, onerr) ==
    [op |-> op, onerr |-> onerr, state |-> "", email |-> <<"">>, consent |-> FALSE,
     scenario_id |-> 0, step_key |-> NoKey, msg |-> [text |-> "", scenario_id |-> 0,
                                                      step_key |-> NoKey, buttons |-> <<>>]]
CallUpdateUserFSMState(state) == [Call("UpdateUserFSMState", "continue") EXCEPT !.state = state]
CallUpdateUserEmail(email, consentGranted) ==
    [Call("UpdateUserEmail", "continue") EXCEPT !.email = email, !.consent = consentGranted]
CallResetUserMessageCount == Call("ResetUserMessageCount", "continue")
CallUpdateUserSession(scenarioID, stepKey) ==
    [Call("UpdateUserSession", "return") EXCEPT !.scenario_id = scenarioID,
                                                !.step_key = stepKey]
CallDeleteUserSession(onerr) == Call("DeleteUserSession", onerr)
CallSend(msg) == [Call("Send", "continue") EXCEPT !.msg = msg]

\* the statement executed on the database
Exec(s, u, c) ==
    CASE c.op = "UpdateUserFSMState" -> UpdateUserFSMState(s, u, c.state)
      [] c.op = "UpdateUserEmail" -> UpdateUserEmail(s, u, c.email, c.consent)
      [] c.op = "ResetUserMessageCount" -> ResetUserMessageCount(s, u)
      [] c.op = "UpdateUserSession" -> UpdateUserSession(s, u, c.scenario_id, c.step_key)
      [] c.op = "DeleteUserSession" -> DeleteUserSession(s, u)
      [] c.op = "Send" -> Send(s, c.msg)
      [] OTHER -> s

RECURSIVE Run(_, _, _)
\* a list of statements executed without interruption
Run(s, u, todo) == IF todo = <<>> THEN s ELSE Run(Exec(s, u, Head(todo)), u, Tail(todo))

(***************************************************************************)
(* Rate limiter.                                                           *)
(***************************************************************************)
\* the stored timestamps that are not older than the window, in stored order
RetainedAll(timestamps, t) == timestamps
Retained(timestamps, t) == SelectSeq(timestamps, LAMBDA ts : ts >= t - Window)

\* the rate limit test on the retained timestamps
ExceededOffByOne(retained, maxPerMinute) == Len(retained) > maxPerMinute
Exceeded(retained, maxPerMinute) == Len(retained) >= maxPerMinute

\* the list the upsert writes: it replaces the stored array by the caller's
\* retained timestamps plus the current one
PersistTimestampsMerging(stored, retained, t) == Append(stored, t)
PersistTimestamps(stored, retained, t) == Append(retained, t)

(***************************************************************************)
(* fsm.FSM                                                                 *)
(***************************************************************************)
EmptyResponse == Reply("")

\* what the NLU collaborator can answer: a transport error, content that is
\* not JSON, a null scenario, or a scenario name (known or not)
NLUResults == {"error", "unparseable", "null", "diagnose_miter_saw", "no_such_scenario"}

\* recognizeScenarioWithAI that takes the first scenario for an unmatched name
recognizeScenarioWithAIFirst(enabled, nlu) ==
    IF ~enabled \/ nlu = "error" \/ nlu = "unparseable" \/ nlu = "null" THEN NoScenario
    ELSE IF \E i \in 1..Len(GetFSMScenarios) : GetFSMScenarios[i].name = nlu
         THEN GetFSMScenarios[CHOOSE i \in 1..Len(GetFSMScenarios) :
                  /\ GetFSMScenarios[i].name = nlu
                  /\ \A j \in 1..(i - 1) : GetFSMScenarios[j].name # nlu]
         ELSE GetFSMScenarios[1]

\* recognizeScenarioWithAI: the scenario named by the reply, if any; an error
\* return is logged by the caller and leaves it without a scenario
recognizeScenarioWithAI(enabled, nlu) ==
    IF ~enabled \/ nlu = "error" \/ nlu = "unparseable" \/ nlu = "null" THEN NoScenario
    ELSE IF \E i \in 1..Len(GetFSMScenarios) : GetFSMScenarios[i].name = nlu
         THEN GetFSMScenarios[CHOOSE i \in 1..Len(GetFSMScenarios) :
                  /\ GetFSMScenarios[i].name = nlu
                  /\ \A j \in 1..(i - 1) : GetFSMScenarios[j].name # nlu]
         ELSE NoScenario

\* GetFirstStep on the step list the storage returned: steps[0], nil when empty
GetFirstStepOf(steps) == IF steps = <<>> THEN NoStep ELSE steps[1]

\* GetFirstStep: steps[0] of the scenario's steps in id order
GetFirstStep(scenarioID) == GetFirstStepOf(GetFSMScenarioSteps(scenarioID))

\* GetPreviousStepKey
GetPreviousStepKeyFirst(currentStepKey) ==
    IF Len(currentStepKey) > 1 THEN <<currentStepKey[1]>> ELSE <<"root">>
GetPreviousStepKey(currentStepKey) ==
    IF Len(currentStepKey) > 1
    THEN LET parentKey == Join(SubSeq(Split(currentStepKey), 1, Len(currentStepKey) - 1))
         IN IF parentKey # <<"root">> /\ parentKey # <<"">> THEN parentKey ELSE <<"root">>
    ELSE <<"root">>

\* what FSM.ProcessMessage does after its reads: the writes it makes (todo)
\* and what it returns to its caller
Outcome(todo, response, handled) ==
    [todo |-> todo, response |-> response, handled |-> handled]

\* the scenario-start branch shared by the NLU and the keyword strategy
StartScenarioFromText(scenario) ==
    LET step == GetFirstStep(scenario.id)
    IN Outcome(<<CallUpdateUserSession(scenario.id, step.step_key)>>, StepMessage(step), TRUE)

\* the recovery that leaves a session whose step is missing in place
InvalidStepKeepsSession == Outcome(<<>>, EmptyResponse, FALSE)

\* the recovery from a session whose step is missing: clear the session
InvalidStep == Outcome(<<CallDeleteUserSession("continue")>>, EmptyResponse, FALSE)

\* the session test that sends every text to the scenario selector
NoActiveSessionAlways(session) == TRUE

\* session == nil || session.ScenarioID == nil
NoActiveSession(session) == ~session.exists \/ session.scenario_id = 0

\* a no-match return that claims the message was handled
NoScenarioTriggeredHandled == Outcome(<<>>, EmptyResponse, TRUE)

\* No scenario triggered
NoScenarioTriggered == Outcome(<<>>, EmptyResponse, FALSE)

\* the session is cleared and the current step's message returned
EndOfScenario(step) ==
    Outcome(<<CallDeleteUserSession("continue")>>, StepMessageOnly(step), TRUE)

\* FSM.ProcessMessage on the session it read and, with the NLU switched on
\* and no active session, the answer client.Do brought
ProcessMessage(session, text, enabled, nlu) ==
    IF NoActiveSession(session)
    THEN LET ai == recognizeScenarioWithAI(enabled, nlu)
             kw == GetFSMScenarioByTrigger(text)
         IN IF enabled /\ ai # NoScenario /\ GetFirstStep(ai.id) # NoStep
            THEN StartScenarioFromText(ai)
            ELSE IF kw # NoScenario /\ GetFirstStep(kw.id) # NoStep
            THEN StartScenarioFromText(kw)
            ELSE NoScenarioTriggered
    ELSE LET step == GetFSMScenarioStep(session.scenario_id, session.current_step_key) IN
         IF step = NoStep
         THEN InvalidStep
         ELSE IF step.is_final \/ step.next_step_key = NoKey
         THEN EndOfScenario(step)
         ELSE LET nextStep == GetFSMScenarioStep(session.scenario_id, step.next_step_key) IN
              IF nextStep = NoStep
              THEN EndOfScenario(step)
              ELSE Outcome(<<CallUpdateUserSession(session.scenario_id, nextStep.step_key)>>,
                           StepMessage(nextStep), TRUE)

(***************************************************************************)
(* bot.Bot: text messages.  A handler is the list of statements it         *)
(* executes after the reads that decided it.                               *)
(***************************************************************************)
\* offerSiteLink
offerSiteLinkKeepsState == <<CallSend(SiteLinkOffer)>>
offerSiteLink == <<CallUpdateUserFSMState(StateOfferingSiteLink), CallSend(SiteLinkOffer)>>

\* handleStartCommand that leaves the diagnostic session in place
handleStartCommandKeepsSession ==
    <<CallUpdateUserFSMState(StateIdle), CallResetUserMessageCount,
      CallSend(ScenarioSelection)>>

\* handleStartCommand
handleStartCommand ==
    <<CallUpdateUserFSMState(StateIdle), CallDeleteUserSession("continue"),
      CallResetUserMessageCount, CallSend(ScenarioSelection)>>

\* the threshold test of processMessage and processCallbackQuery
ThresholdReached(messageCount, triggerCount) == messageCount >= triggerCount

\* the threshold branch: the offer, then ResetUserMessageCount
OfferAndReset == offerSiteLink \o <<CallResetUserMessageCount>>

\* the end of processMessage after fsm.ProcessMessage has returned without an
\* error: the response is sent, or the generic acknowledgement
SendResponseAlways(r) == <<CallSend(r.response)>>
SendResponse(r) ==
    IF r.handled /\ r.response # EmptyResponse THEN <<CallSend(r.response)>>
    ELSE IF ~r.handled THEN <<CallSend(GenericResponse)>>
    ELSE <<>>

\* message.IsCommand() && message.Command() == "start"
IsStartCommand(text) == text = TextStart

(***************************************************************************)
(* bot.Bot: button presses.  data is query.Data, user the row read by      *)
(* handleCallbackQuery before the event's own writes.                      *)
(***************************************************************************)
\* handleSiteLinkYes
handleSiteLinkYes ==
    <<CallUpdateUserFSMState(StateAwaitingEmail), CallSend(GetEmailRequestMessage)>>

\* handleSiteLinkNo
handleSiteLinkNo ==
    <<CallResetUserMessageCount, CallUpdateUserFSMState(StateIdle),
      CallSend(GetSiteLinkDeclinedMessage)>>

\* handleSiteLinkYesPost
handleSiteLinkYesPost ==
    <<CallResetUserMessageCount, CallUpdateUserFSMState(StateOfferingSitePost),
      CallSend(GetSiteLinkOfferPost)>>

\* handleSiteLinkNoPost
handleSiteLinkNoPost ==
    <<CallResetUserMessageCount, CallUpdateUserFSMState(StateIdle),
      CallSend(GetSiteLinkNoPostMessage)>>

\* handleEmailConsentYes
handleEmailConsentYes(user) ==
    (IF user.email # <<"">> THEN <<CallUpdateUserEmail(user.email, TRUE)>> ELSE <<>>)
    \o <<CallUpdateUserFSMState(StateIdle), CallSend(GetEmailSavedMessage)>>

\* handleEmailConsentNo
handleEmailConsentNo ==
    <<CallUpdateUserFSMState(StateIdle), CallSend(GetEmailDeclinedMessage)>>

\* handleEmailConfirm that returns when a write fails
handleEmailConfirmReturns(data) ==
    <<[CallUpdateUserEmail(TrimPrefix(data, <<"email", "confirm">>), FALSE)
          EXCEPT !.onerr = "return"],
      [CallUpdateUserFSMState(StateAwaitingEmailConsent) EXCEPT !.onerr = "return"],
      CallSend(EmailConsentQuestion)>>

\* handleEmailConfirm: an error of either write is logged and the handler
\* goes on
handleEmailConfirm(data) ==
    <<CallUpdateUserEmail(TrimPrefix(data, <<"email", "confirm">>), FALSE),
      CallUpdateUserFSMState(StateAwaitingEmailConsent),
      CallSend(EmailConsentQuestion)>>

\* a tail that stores the scenario id without the step key
ShowStepScenarioOnly(scenarioID, step) ==
    <<CallUpdateUserSession(scenarioID, NoKey), CallSend(StepMessage(step))>>

\* the tail shared by the navigation handlers: move the session, show the step
ShowStep(scenarioID, step) ==
    <<CallUpdateUserSession(scenarioID, step.step_key), CallSend(StepMessage(step))>>

\* handleStartScenario
handleStartScenario(data) ==
    LET scenarioIDStr == TrimPrefix(data, <<"start", "scenario">>)
        scenarioID == Atoi(scenarioIDStr)
    IN IF ~AtoiOk(scenarioIDStr) THEN <<>>
       ELSE IF GetFSMScenario(scenarioID) = NoScenario THEN <<>>
       ELSE IF GetFirstStep(scenarioID) = NoStep THEN <<>>
       ELSE ShowStep(scenarioID, GetFirstStep(scenarioID))

\* handleOption
handleOption(data) ==
    LET parts == Split(data) IN
    IF Len(parts) >= 4
    THEN LET scenarioID == Atoi(parts[2])
             nextKey == parts[3] \o parts[4]
             nextStep == GetFSMScenarioStep(scenarioID, nextKey)
         IN IF nextStep # NoStep THEN ShowStep(scenarioID, nextStep) ELSE <<>>
    ELSE <<>>

\* handleGoto
handleGotoSplit(data) ==
    LET parts == Split(data) IN
    IF Len(parts) >= 3
    THEN LET scenarioID == Atoi(parts[2])
             step == GetFSMScenarioStep(scenarioID, parts[3])
         IN IF step # NoStep THEN ShowStep(scenarioID, step) ELSE <<>>
    ELSE <<>>
handleGoto(data) ==
    LET parts == SplitN(data, 3) IN
    IF Len(parts) >= 3
    THEN LET scenarioID == Atoi(parts[2])
             step == GetFSMScenarioStep(scenarioID, parts[3])
         IN IF step # NoStep THEN ShowStep(scenarioID, step) ELSE <<>>
    ELSE <<>>

\* handleAction
handleAction(data) ==
    LET parts == Split(data) IN
    IF Len(parts) >= 3
    THEN LET scenarioID == Atoi(parts[2])
             step == GetFSMScenarioStep(scenarioID, parts[3])
         IN IF step # NoStep THEN ShowStep(scenarioID, step) ELSE <<>>
    ELSE <<>>

\* handleBack that takes the whole step key from the token
handleBackWholeKey(data) ==
    LET parts == SplitN(data, 3) IN
    IF Len(parts) >= 3
    THEN LET scenarioID == Atoi(parts[2])
             currentStepKey == parts[3]
             step == GetFSMScenarioStep(scenarioID, GetPreviousStepKey(currentStepKey))
         IN IF currentStepKey = <<"root">>
            THEN <<CallDeleteUserSession("return"), CallSend(ScenarioSelection)>>
            ELSE IF step # NoStep THEN ShowStep(scenarioID, step) ELSE <<>>
    ELSE <<>>

\* handleBack
handleBack(data) ==
    LET parts == Split(data) IN
    IF Len(parts) >= 3
    THEN LET scenarioID == Atoi(parts[2])
             currentStepKey == parts[3]
             step == GetFSMScenarioStep(scenarioID, GetPreviousStepKey(currentStepKey))
         IN IF currentStepKey = <<"root">>
            THEN <<CallDeleteUserSession("return"), CallSend(ScenarioSelection)>>
            ELSE IF step # NoStep THEN ShowStep(scenarioID, step) ELSE <<>>
    ELSE <<>>

\* the dispatch of processCallbackQuery: the handler a token selects
HandlerOf(data) ==
    CASE data = <<"site", "link", "yes">> -> "handleSiteLinkYes"
      [] data = <<"site", "link", "no">> -> "handleSiteLinkNo"
      [] data = <<"site", "link", "yes", "post">> -> "handleSiteLinkYesPost"
      [] data = <<"site", "link", "no", "post">> -> "handleSiteLinkNoPost"
      [] data = <<"email", "consent", "yes">> -> "handleEmailConsentYes"
      [] data = <<"email", "consent", "no">> -> "handleEmailConsentNo"
      [] OTHER ->
           IF HasPrefix(data, <<"email", "confirm">>) THEN "handleEmailConfirm"
           ELSE IF HasPrefix(data, <<"start", "scenario">>) THEN "handleStartScenario"
           ELSE IF HasPrefix(data, <<"option">>) THEN "handleOption"
           ELSE IF HasPrefix(data, <<"goto">>) THEN "handleGoto"
           ELSE IF HasPrefix(data, <<"action">>) THEN "handleAction"
           ELSE IF HasPrefix(data, <<"back">>) THEN "handleBack"
           ELSE "unknown"

\* the switch of processCallbackQuery: the statements of the handler
Dispatch(user, data) ==
    LET h == HandlerOf(data) IN
    CASE h = "handleSiteLinkYes" -> handleSiteLinkYes
      [] h = "handleSiteLinkNo" -> handleSiteLinkNo
      [] h = "handleSiteLinkYesPost" -> handleSiteLinkYesPost
      [] h = "handleSiteLinkNoPost" -> handleSiteLinkNoPost
      [] h = "handleEmailConsentYes" -> handleEmailConsentYes(user)
      [] h = "handleEmailConsentNo" -> handleEmailConsentNo
      [] h = "handleEmailConfirm" -> handleEmailConfirm(data)
      [] h = "handleStartScenario" -> handleStartScenario(data)
      [] h = "handleOption" -> handleOption(data)
      [] h = "handleGoto" -> handleGoto(data)
      [] h = "handleAction" -> handleAction(data)
      [] h = "handleBack" -> handleBack(data)
      [] OTHER -> <<>>

(***************************************************************************)
(* Goroutines.  Bot.Start runs handleMessage or handleCallbackQuery for    *)
(* every update in a goroutine of its own; no lock and no transaction      *)
(* orders the statements of two goroutines.  proc[p] is the goroutine in   *)
(* slot p: pc is the statement it executes next, the other fields are its  *)
(* locals (t, seen, stamps, row, updated, trigger, session, nlu, todo),    *)
(* each                                                                    *)
(* kept as long as the function that declares it has not returned, and the *)
(* record of what it did (path, out, wrote, failed, result).  alone says   *)
(* that no other goroutine of the same user was in flight while it ran,    *)
(* and for such a goroutine pre and post are the user's part of the        *)
(* database before its first and after its last statement.  A goroutine    *)
(* that has returned stays in its slot, with pc "done", until the slot is  *)
(* handed the next update.                                                 *)
(*                                                                         *)
(* Besides the two handlers a slot can run CheckRateLimit or               *)
(* FSM.ProcessMessage on its own (kind "CheckRateLimit",                   *)
(* "ProcessMessage").  LogMessage writes the messages table, which no      *)
(* statement of the model reads, and is left out.                          *)
(***************************************************************************)
Slots == {1, 2}

\* the part of the database that belongs to user u
Snapshot(s, u) == [user |-> s.users[u], session |-> s.sessions[u], rate |-> s.rate[u]]
NoSnapshot == [user |-> NoUser, session |-> NoSession, rate |-> <<>>]

\* what FSM.ProcessMessage returned
NoResult == [response |-> EmptyResponse, handled |-> FALSE, err |-> FALSE]

Idle ==
    [pc |-> "idle", kind |-> "none", user |-> 0, data |-> <<"">>, t |-> 0, seen |-> <<>>,
     stamps |-> <<>>, allowed |-> FALSE, row |-> NoUser, updated |-> NoUser, trigger |-> 0,
     session |-> NoSession, nlu |-> "none", path |-> "none", todo |-> <<>>, out |-> <<>>,
     wrote |-> <<>>, failed |-> <<>>, result |-> NoResult, alone |-> TRUE,
     pre |-> NoSnapshot, post |-> NoSnapshot]

Database == [users |-> users, sessions |-> user_sessions, rate |-> rate_limits,
             out |-> <<>>]

\* the goroutine is between its first statement and its return
Running(g) == g.pc \notin {"idle", "done"}

\* the slots other than p that run an update of user u
Others(p, u) == {q \in Slots \ {p} : Running(proc[q]) /\ proc[q].user = u}

\* the database r and the goroutine g after a step of slot p: a goroutine that
\* has returned records the state it leaves behind
Apply(p, r, g) ==
    /\ users' = r.users
    /\ user_sessions' = r.sessions
    /\ rate_limits' = r.rate
    /\ proc' = [proc EXCEPT ![p] = IF g.pc = "done" /\ g.alone
                                   THEN [g EXCEPT !.post = Snapshot(r, g.user)]
                                   ELSE g]

\* the goroutine goes on with the statements of todo, or returns when there
\* are none
Goto(g, path, todo) ==
    [g EXCEPT !.path = path, !.todo = todo,
              !.pc = IF todo = <<>> THEN "done" ELSE "Statement"]

\* the goroutine returns
Return(g, path) == [g EXCEPT !.path = path, !.pc = "done", !.todo = <<>>]

\* an update arrives and Bot.Start spawns its goroutine in slot p, or a call
\* of kind is made there; the first statement of CheckRateLimit reads the
\* clock: now := time.Now().Unix()
Start(p, kind, u, data) ==
    /\ ~Running(proc[p])
    /\ budget.updates[p] > 0
    /\ budget' = [budget EXCEPT !.updates[p] = @ - 1]
    /\ proc' = [q \in Slots |->
                  IF q = p
                  THEN [Idle EXCEPT !.pc = IF kind = "ProcessMessage" THEN "GetUserSession"
                                           ELSE "SelectMessageTimestamps",
                                    !.kind = kind, !.user = u, !.data = data, !.t = now,
                                    !.alone = (Others(p, u) = {}),
                                    !.pre = IF Others(p, u) = {} THEN Snapshot(Database, u)
                                            ELSE NoSnapshot]
                  ELSE IF q \in Others(p, u)
                  THEN [proc[q] EXCEPT !.alone = FALSE, !.pre = NoSnapshot]
                  ELSE proc[q]]
    /\ UNCHANGED <<now, rate_limits, users, user_sessions, settings, openAIEnabled,
                   admitted, ev>>

\* a limiter that admits whatever it finds
LimitTestAdmitsAll(g) == [g EXCEPT !.pc = "UpsertRateLimit"]

\* len(timestamps) >= maxPerMinute: handleMessage answers a rejected message
\* with the rate limit text, handleCallbackQuery returns
LimitTest(g) ==
    IF Exceeded(g.stamps, RateLimitPerMin)
    THEN CASE g.kind = "message" ->
                Goto([g EXCEPT !.stamps = <<>>], "rejected", <<CallSend(GetRateLimitMessage)>>)
           [] g.kind = "callback" -> Return([g EXCEPT !.stamps = <<>>], "rejected")
           [] OTHER -> Return(g, "rejected")
    ELSE [g EXCEPT !.pc = "UpsertRateLimit"]

\* SELECT message_timestamps FROM rate_limits WHERE telegram_id = $1: without
\* a row the list stays empty
SelectMessageTimestamps(p) ==
    LET g == proc[p] IN
    /\ g.pc = "SelectMessageTimestamps"
    /\ Apply(p, Database,
             IF rate_limits[g.user] # <<>> THEN [g EXCEPT !.pc = "SelectUnnest"]
             ELSE LimitTest(g))
    /\ UNCHANGED <<now, settings, openAIEnabled, budget, admitted, ev>>

\* SELECT unnest(message_timestamps) ...: the timestamps with ts >= oneMinuteAgo
SelectUnnest(p) ==
    LET g == proc[p] IN
    /\ g.pc = "SelectUnnest"
    /\ Apply(p, Database,
             LimitTest([g EXCEPT !.stamps = Retained(rate_limits[g.user], g.t),
                                 !.seen = IF g.kind = "CheckRateLimit"
                                          THEN rate_limits[g.user] ELSE <<>>]))
    /\ UNCHANGED <<now, settings, openAIEnabled, budget, admitted, ev>>

\* timestamps = append(timestamps, now); INSERT ... ON CONFLICT DO UPDATE SET
\* message_timestamps = $2; return true
UpsertRateLimit(p) ==
    LET g == proc[p]
        u == g.user
        r == [Database EXCEPT !.rate[u] = PersistTimestamps(@, g.stamps, g.t)]
        g1 == [g EXCEPT !.allowed = TRUE, !.wrote = Append(@, "CheckRateLimit")]
    IN /\ g.pc = "UpsertRateLimit"
       /\ Apply(p, r, CASE g.kind = "message" ->
                               [g1 EXCEPT !.pc = "GetOrCreateUser", !.stamps = <<>>]
                        [] g.kind = "callback" -> [g1 EXCEPT !.pc = "GetUser", !.stamps = <<>>]
                        [] OTHER -> Return(g1, "CheckRateLimit"))
       /\ admitted' = IF g.kind = "CheckRateLimit"
                      THEN [admitted EXCEPT ![u] = Append(@, [t |-> g.t, alone |-> g.alone])]
                      ELSE admitted
       /\ UNCHANGED <<now, settings, openAIEnabled, budget, ev>>

\* handleMessage: GetOrCreateUser.  The INSERT returns the new row, whose
\* email is NULL, and Scan fails on it: handleMessage logs the error and
\* returns.  For a stored row the INSERT does nothing and GetUser follows.
InsertUser(p) ==
    LET g == proc[p]
        r == GetOrCreateUser(Database, g.user)
    IN /\ g.pc = "GetOrCreateUser"
       /\ Apply(p, r, IF users[g.user].exists THEN [g EXCEPT !.pc = "GetUser"]
                      ELSE Return([g EXCEPT !.wrote = Append(@, "GetOrCreateUser")],
                                  "failed"))
       /\ UNCHANGED <<now, settings, openAIEnabled, budget, admitted, ev>>

\* GetUser, of handleCallbackQuery and of GetOrCreateUser: no row gives nil
\* and the handler returns; a row with a NULL email gives an error and the
\* handler returns; /start goes to handleStartCommand
SelectUser(p) ==
    LET g == proc[p]
        row == users[g.user]
    IN /\ g.pc = "GetUser"
       /\ Apply(p, Database,
                IF ~row.exists THEN Return(g, "no user")
                ELSE IF ~ScanUser(row) THEN Return(g, "failed")
                ELSE IF g.kind = "message" /\ IsStartCommand(g.data[1])
                THEN Goto([g EXCEPT !.row = row], "handleStartCommand", handleStartCommand)
                ELSE [g EXCEPT !.row = row, !.pc = "UpdateUserMessageCount"])
       /\ UNCHANGED <<now, settings, openAIEnabled, budget, admitted, ev>>

\* processMessage, processCallbackQuery: b.storage.UpdateUserMessageCount
IncrementMessageCount(p) ==
    LET g == proc[p] IN
    /\ g.pc = "UpdateUserMessageCount"
    /\ Apply(p, UpdateUserMessageCount(Database, g.user),
             [g EXCEPT !.pc = "ReloadUser", !.wrote = Append(@, "UpdateUserMessageCount")])
    /\ UNCHANGED <<now, settings, openAIEnabled, budget, admitted, ev>>

\* updatedUser, err := b.storage.GetUser(...)
ReloadUser(p) ==
    LET g == proc[p]
        row == users[g.user]
    IN /\ g.pc = "ReloadUser"
       /\ Apply(p, Database,
                IF ~row.exists \/ ~ScanUser(row) THEN Return(g, "failed")
                ELSE [g EXCEPT !.updated = row, !.pc = "GetSettings"])
       /\ UNCHANGED <<now, settings, openAIEnabled, budget, admitted, ev>>

\* settings, err := b.storage.GetSettings(), and the threshold test on the
\* row read by ReloadUser: at the threshold offerSiteLink and then
\* ResetUserMessageCount; below it a message goes to fsm.ProcessMessage and a
\* press to its handler, which is given the row read by SelectUser
SelectSettings(p) ==
    LET g == [proc[p] EXCEPT !.trigger = settings.trigger_message_count,
                             !.updated = NoUser] IN
    /\ g.pc = "GetSettings"
    /\ Apply(p, Database,
             IF ThresholdReached(proc[p].updated.message_count, g.trigger)
             THEN Goto(g, "offerSiteLink", OfferAndReset)
             ELSE IF g.kind = "message" THEN [g EXCEPT !.pc = "GetUserSession"]
             ELSE Goto(g, HandlerOf(g.data), Dispatch(g.row, g.data)))
    /\ UNCHANGED <<now, settings, openAIEnabled, budget, admitted, ev>>

\* FSM.ProcessMessage has made its reads: its writes are still to do, its
\* return values are known; processMessage then sends the response
Engine(g, nlu) ==
    LET r == ProcessMessage(g.session, g.data[1], openAIEnabled, nlu)
        g1 == [g EXCEPT !.nlu = nlu, !.session = NoSession,
                        !.result = [response |-> r.response, handled |-> r.handled,
                                    err |-> FALSE]]
    IN IF g.kind = "message" THEN Goto(g1, "ProcessMessage", r.todo \o SendResponse(r))
       ELSE Goto(g1, "FSM.ProcessMessage", r.todo)

\* FSM.ProcessMessage: session, err := f.storage.GetUserSession(userID).  With
\* no active session and the NLU switched on the goroutine goes into
\* client.Do; otherwise the steps and keywords it reads decide its writes.
SelectUserSession(p) ==
    /\ proc[p].pc = "GetUserSession"
    /\ LET g == [proc[p] EXCEPT !.session = user_sessions[proc[p].user]] IN
       Apply(p, Database,
                IF NoActiveSession(g.session) /\ openAIEnabled
                THEN [g EXCEPT !.pc = "client.Do"]
                ELSE Engine(g, "none"))
    /\ UNCHANGED <<now, settings, openAIEnabled, budget, admitted, ev>>

\* recognizeScenarioWithAI: the collaborator answers and client.Do returns.
\* The http.Client has no Timeout and the request no context, so nothing else
\* ends the call.
NLUResponds(p, nlu) ==
    LET g == proc[p] IN
    /\ g.pc = "client.Do"
    /\ Apply(p, Database, Engine(g, nlu))
    /\ UNCHANGED <<now, settings, openAIEnabled, budget, admitted, ev>>

\* the goroutine after the first statement of its todo list
Advance(g) ==
    [g EXCEPT !.todo = Tail(@), !.pc = IF Tail(g.todo) = <<>> THEN "done" ELSE "Statement"]

\* the next storage write or Send of the handler
Statement(p) ==
    LET g == proc[p]
        c == Head(g.todo)
        r == Exec([Database EXCEPT !.out = g.out], g.user, c)
    IN /\ g.pc = "Statement"
       /\ Apply(p, [r EXCEPT !.out = <<>>],
                Advance([g EXCEPT !.out = r.out,
                                  !.wrote = IF c.op = "Send" THEN @ ELSE Append(@, c.op)]))
       /\ UNCHANGED <<now, settings, openAIEnabled, budget, admitted, ev>>

\* the storage write the goroutine in slot p is about to make returns an
\* error, and nothing is written.  The upsert of CheckRateLimit (storage.go
\* 325-328, with bot.go 930-933 and 1020-1023), the INSERT of GetOrCreateUser
\* (storage.go 98-116, bot.go 943-946) and UpdateUserMessageCount (bot.go
\* 1531-1534, 1603-1606) end the event; a write of a handler makes the
\* handler return, or log the error and go on.  failed records the write and
\* how many writes and Sends the goroutine had made
StorageError(p) ==
    LET g == proc[p]
        op == CASE g.pc = "Statement" -> Head(g.todo).op
                [] g.pc = "UpsertRateLimit" -> "CheckRateLimit"
                [] OTHER -> g.pc
        g1 == [g EXCEPT !.failed = Append(@, [op |-> op, wrote |-> Len(g.wrote), sent |-> Len(g.out)])]
    IN /\ g.pc \in {"UpsertRateLimit", "GetOrCreateUser", "UpdateUserMessageCount", "Statement"}
       /\ op # "Send"
       /\ budget.faults > 0
       /\ budget' = [budget EXCEPT !.faults = @ - 1]
       /\ Apply(p, Database,
                IF g.pc # "Statement"
                THEN Return([g1 EXCEPT !.stamps = <<>>], "failed")
                ELSE IF Head(g.todo).onerr = "return"
                THEN Return([g1 EXCEPT !.result.err = TRUE, !.result.handled = FALSE,
                                       !.result.response = EmptyResponse], g.path)
                ELSE Advance(g1))
       /\ UNCHANGED <<now, settings, openAIEnabled, admitted, ev>>

\* the clock advances
Tick(d) ==
    /\ now + d <= MaxTime
    /\ now' = now + d
    /\ UNCHANGED <<rate_limits, users, user_sessions, settings, openAIEnabled, proc, budget,
                   admitted, ev>>

\* PostgresStorage.UpdateSettings, called by handleUpdateSettings, which
\* rejects a trigger_message_count below 1
UpdateSettings(triggerCount) ==
    /\ triggerCount >= 1
    /\ triggerCount # settings.trigger_message_count
    /\ settings' = [settings EXCEPT !.trigger_message_count = triggerCount]
    /\ UNCHANGED <<now, rate_limits, users, user_sessions, openAIEnabled, proc, budget,
                   admitted, ev>>

\* the statements of CheckRateLimit
RateLimiter(p) ==
    \/ SelectMessageTimestamps(p)
    \/ SelectUnnest(p)
    \/ UpsertRateLimit(p)

\* the statements of handleMessage and handleCallbackQuery after the rate
\* limiter, up to the handler
Handler(p) ==
    \/ SelectUser(p)
    \/ IncrementMessageCount(p)
    \/ ReloadUser(p)
    \/ SelectSettings(p)
    \/ Statement(p)
(***************************************************************************)
(* Inputs and stored states.  A specification starts from a database the   *)
(* program can have left behind and hands each goroutine slot its updates. *)
(* A users row is absent, or as GetOrCreateUser inserts it (email NULL,    *)
(* which no handler can read), or has an email that is not NULL: written   *)
(* by UpdateUserEmail, or set when the row was created outside the         *)
(* handlers (migration 002 is not part of the sources).                    *)
(***************************************************************************)
Emails == {<<"user@example.com">>, <<"a", "b@x.io">>}

OverlayTokens ==
    {<<"site", "link", "yes">>, <<"site", "link", "no">>,
     <<"site", "link", "yes", "post">>, <<"site", "link", "no", "post">>,
     <<"email", "consent", "yes">>, <<"email", "consent", "no">>}
    \cup {<<"email", "confirm">> \o e : e \in Emails}

MalformedTokens ==
    {<<"start", "scenario", "x">>, <<"start", "scenario", "9">>,
     <<"goto", "1", "missing">>, <<"goto", "1">>, <<"back", "1">>,
     <<"back", "x", "root">>,
     <<"hello">>, <<"">>}

Range(f) == {f[i] : i \in DOMAIN f}

\* a stored users row
Row(count, state, email, consent) ==
    [exists |-> TRUE, message_count |-> count, fsm_state |-> state, email |-> email,
     consent_granted |-> consent]

\* a stored session
Session(scenarioID, stepKey) ==
    [exists |-> TRUE, scenario_id |-> scenarioID, current_step_key |-> stepKey]

\* a row that no handler has read has no session
Stored(row, session) == (~row.exists \/ row.email = NullEmail) => session = NoSession

InitSpec(U, rows, sessions, rates, enabled, updates, faults) ==
    /\ now = 0
    /\ rate_limits \in [U -> rates]
    /\ users \in [U -> rows]
    /\ user_sessions \in [U -> sessions]
    /\ \A u \in U : Stored(users[u], user_sessions[u])
    /\ settings = [trigger_message_count |-> TriggerMessageCount]
    /\ openAIEnabled \in enabled
    /\ proc = [p \in Slots |-> Idle]
    /\ budget = [updates |-> updates, faults |-> faults]
    /\ admitted = [u \in U |-> <<>>]
    /\ ev = NoEvent

(***************************************************************************)
(* Spec: the overlay.  A user in any overlay state, in a scenario or not,  *)
(* at the rate limit or not; slot 1 is handed a text, /start, an overlay   *)
(* press, a start_scenario press or a navigation press, slot 2 a text that *)
(* runs beside it.  Both updates arrive within the same second.            *)
(***************************************************************************)
\* The row (awaiting_email_consent, consent_granted) is one the handlers
\* leave behind: handleEmailConsentYes writes consent_granted = TRUE and idle
\* while a handleEmailConfirm beside it writes awaiting_email_consent last
\* (SpecConsent), and handleEmailConfirm goes on to awaiting_email_consent
\* after a failed UpdateUserEmail for a user who had consented (StorageError).
SpecRows ==
    {Row(TriggerMessageCount - 2, st, IF st = StateAwaitingEmailConsent THEN <<"a", "b@x.io">> ELSE <<"">>, FALSE) :
        st \in {StateIdle, StateOfferingSiteLink, StateOfferingSitePost, StateAwaitingEmail,
                StateAwaitingEmailConsent}}
    \cup {Row(TriggerMessageCount - 2, StateAwaitingEmailConsent, <<"a", "b@x.io">>, TRUE)}
    \cup {NoUser, [NoUser EXCEPT !.exists = TRUE]}

SpecSessions == {NoSession, Session(1, <<"no", "power", "indicator", "lit">>)}

Init ==
    InitSpec(Users, SpecRows, SpecSessions, {<<>>, <<0, 0>>}, {FALSE}, <<1, 1>>, 0)

StartTokens ==
    {StartScenarioToken(FSMScenarios[i].id) : i \in 1..Len(FSMScenarios)}
    \cup {<<"start", "scenario", "x">>, <<"start", "scenario", "9">>}

SpecTexts(p) == IF p = 1 THEN Texts \cup {TextStart} ELSE {TextHello}
SpecTokens(p) ==
    IF p = 1
    THEN OverlayTokens \cup StartTokens
         \cup {<<"goto", "1", "no", "power">>, <<"back", "1", "no", "power", "indicator", "lit">>}
    ELSE {}

Next ==
    \/ \E p \in Slots, u \in Users : \E text \in SpecTexts(p) : Start(p, "message", u, <<text>>)
    \/ \E p \in Slots, u \in Users : \E data \in SpecTokens(p) : Start(p, "callback", u, data)
    \/ \E p \in Slots : RateLimiter(p)
    \/ \E p \in Slots : InsertUser(p)
    \/ \E p \in Slots : Handler(p)
    \/ \E p \in Slots : SelectUserSession(p)

Spec == Init /\ [][Next]_vars

(***************************************************************************)
(* SpecNav: navigation.  A user in Idle whose session is on any stored     *)
(* step, or who has none; slot 1 is handed a press of a button of the      *)
(* keyboard shown for that step, and for three of the sessions also the    *)
(* malformed tokens and tokens of other steps; slot 2 a text.              *)
(***************************************************************************)
NavSessions ==
    {NoSession}
    \cup {Session(FSMSteps[i].scenario_id, FSMSteps[i].step_key) : i \in 1..Len(FSMSteps)}

\* tokens that no keyboard shown for the user's step carries
ForeignTokens ==
    MalformedTokens
    \cup {<<"back", "1", "root">>, <<"goto", "2", "no", "power">>,
          <<"goto", "1", "no", "power", "indicator", "lit">>,
          <<"action", "1", "root">>, <<"option", "1", "no", "power">>}

NavTokens(session) ==
    (IF session.exists
     THEN Range(GenerateButtonsForStep(
                   GetFSMScenarioStep(session.scenario_id, session.current_step_key),
                   session.scenario_id))
     ELSE {})
    \cup (IF session \in {NoSession, Session(1, <<"root">>), Session(2, <<"no", "power">>)}
          THEN ForeignTokens ELSE {})

InitNav ==
    InitSpec(Users, {Row(0, StateIdle, <<"">>, FALSE)}, NavSessions, {<<>>}, {FALSE},
             <<1, 1>>, 0)

NextNav ==
    \/ \E u \in Users : \E data \in NavTokens(user_sessions[u]) : Start(1, "callback", u, data)
    \/ \E u \in Users : Start(2, "message", u, <<TextHello>>)
    \/ \E p \in Slots : RateLimiter(p)
    \/ \E p \in Slots : InsertUser(p)
    \/ \E p \in Slots : Handler(p)
    \/ \E p \in Slots : SelectUserSession(p)

SpecNav == InitNav /\ [][NextNav]_vars

(***************************************************************************)
(* SpecRate: CheckRateLimit called on its own, MaxCalls times in each      *)
(* slot, while the clock advances.                                         *)
(***************************************************************************)
RateTicks == {Window \div 2, Window \div 2 + 1}

InitRate == InitSpec(Users, {NoUser}, {NoSession}, {<<>>}, {FALSE}, <<MaxCalls, MaxCalls>>, 0)

NextRate ==
    \/ \E p \in Slots, u \in Users : Start(p, "CheckRateLimit", u, <<"">>)
    \/ \E p \in Slots : RateLimiter(p)
    \/ \E d \in RateTicks : Tick(d)

SpecRate == InitRate /\ [][NextRate]_vars

(***************************************************************************)
(* SpecEngine: FSM.ProcessMessage called on its own, and the text messages *)
(* and option presses that go through it.  user_sessions has no foreign    *)
(* key to fsm_steps, so a stored session may name a step the scenario does *)
(* not have; current_scenario_id is nullable.  The NLU strategy is         *)
(* switched on or off by configuration.                                    *)
(***************************************************************************)
EngineSessions ==
    {NoSession,
     [exists |-> TRUE, scenario_id |-> 0, current_step_key |-> NoKey],
     Session(1, <<"root">>), Session(1, <<"no", "power">>),
     Session(1, <<"stops", "immediately">>), Session(1, <<"missing">>),
     Session(2, <<"root">>), Session(2, <<"no", "power", "power", "ok">>)}

InitEngine ==
    InitSpec(Users, {Row(0, StateIdle, <<"">>, FALSE)}, EngineSessions, {<<>>}, BOOLEAN,
             <<1, 1>>, 0)

\* the option buttons parseButtonsFromMessage gives a stored step when the
\* step's message has the lines "1.", "2." and "3."
OptionTokens ==
    {OptionToken(FSMSteps[i].scenario_id, FSMSteps[i].step_key, n) :
        i \in 1..Len(FSMSteps), n \in {<<"1">>, <<"2">>, <<"3">>}}

\* those of them SpecEngine presses: the first option of the steps of
\* scenario 1 whose key has one or two segments
EngineTokens ==
    {data \in OptionTokens : data[2] = "1" /\ data[Len(data)] = "1" /\ Len(data) <= 5}

NextEngine ==
    \/ \E u \in Users, text \in Texts : Start(1, "ProcessMessage", u, <<text>>)
    \/ \E u \in Users, text \in {TextHello, TextGrinder} : Start(1, "message", u, <<text>>)
    \/ \E u \in Users, data \in EngineTokens : Start(1, "callback", u, data)
    \/ \E u \in Users : Start(2, "message", u, <<TextHello>>)
    \/ \E p \in Slots : RateLimiter(p)
    \/ \E p \in Slots : InsertUser(p)
    \/ \E p \in Slots : Handler(p)
    \/ \E p \in Slots : SelectUserSession(p)
    \/ \E p \in Slots, nlu \in NLUResults : NLUResponds(p, nlu)

SpecEngine == InitEngine /\ [][NextEngine]_vars

(***************************************************************************)
(* SpecFail: the events and the CheckRateLimit calls during which a        *)
(* storage write returns an error, MaxFaults times at most.                *)
(***************************************************************************)
InitFail ==
    InitSpec(Users,
             {Row(0, StateAwaitingEmail, <<"">>, FALSE),
              Row(TriggerMessageCount - 1, StateOfferingSiteLink, <<"">>, FALSE)},
             {NoSession, Session(1, <<"root">>)}, {<<>>}, {FALSE}, <<1, 1>>, MaxFaults)

FailTokens ==
    {<<"email", "confirm">> \o e : e \in Emails}
    \cup {<<"site", "link", "no">>, <<"goto", "1", "no", "power">>, <<"back", "1", "root">>}

NextFail ==
    \/ \E u \in Users, data \in FailTokens : Start(1, "callback", u, data)
    \/ \E u \in Users, text \in {TextHello, TextStart} : Start(1, "message", u, <<text>>)
    \/ \E u \in Users : Start(2, "message", u, <<TextHello>>)
    \/ \E u \in Users : Start(2, "CheckRateLimit", u, <<"">>)
    \/ \E p \in Slots : RateLimiter(p)
    \/ \E p \in Slots : InsertUser(p)
    \/ \E p \in Slots : Handler(p)
    \/ \E p \in Slots : SelectUserSession(p)
    \/ \E p \in Slots : StorageError(p)

SpecFail == InitFail /\ [][NextFail]_vars

(***************************************************************************)
(* SpecNLU: text messages with the NLU strategy switched on, beside a      *)
(* start_scenario press, while the settings are edited.                    *)
(* recognizeScenarioWithAI builds an http.Client without a Timeout and a   *)
(* request without a context, so client.Do returns only when the           *)
(* collaborator answers.  The steps of a goroutine are fair; the           *)
(* collaborator's answer is not.                                           *)
(***************************************************************************)
\* the trigger counts handleUpdateSettings is asked to store
TriggerCounts == {2, TriggerMessageCount}

InitNLU ==
    InitSpec(Users, {Row(0, StateIdle, <<"">>, FALSE)}, {NoSession, Session(1, <<"root">>)},
             {<<>>}, {TRUE}, <<1, 1>>, 0)

\* a step of the goroutine in slot p
Goroutine(p) ==
    \/ RateLimiter(p)
    \/ InsertUser(p)
    \/ Handler(p)
    \/ SelectUserSession(p)

NextNLU ==
    \/ \E u \in Users, text \in {TextHello, TextGrinder} : Start(1, "message", u, <<text>>)
    \/ \E u \in Users : Start(2, "callback", u, <<"start", "scenario", "1">>)
    \/ \E p \in Slots : Goroutine(p)
    \/ \E p \in Slots, nlu \in NLUResults : NLUResponds(p, nlu)
    \/ \E n \in TriggerCounts : UpdateSettings(n)

SpecNLU == InitNLU /\ [][NextNLU]_vars /\ \A p \in Slots : WF_vars(Goroutine(p))

(***************************************************************************)
(* SpecTwo: two users, each slot handed an update of either.               *)
(***************************************************************************)
TwoUsers == {1, 2}

InitTwo ==
    /\ InitSpec(TwoUsers,
                {Row(2, StateIdle, <<"">>, FALSE), Row(0, StateAwaitingEmail, <<"">>, FALSE)},
                {NoSession, Session(1, <<"root">>)}, {<<>>}, {FALSE}, <<1, 1>>, 0)
    /\ user_sessions[1].exists /\ ~user_sessions[2].exists

TwoTokens == {<<"email", "confirm", "user@example.com">>, <<"site", "link", "no">>}

NextTwo ==
    \/ \E p \in Slots, u \in TwoUsers, text \in {TextGrinder, TextStart} :
          Start(p, "message", u, <<text>>)
    \/ \E p \in Slots, u \in TwoUsers, data \in TwoTokens : Start(p, "callback", u, data)
    \/ \E p \in Slots : Goroutine(p)

SpecTwo == InitTwo /\ [][NextTwo]_vars

(***************************************************************************)
(* SpecCount: two updates of a user whose message_count is near the        *)
(* threshold, while the settings are edited.                               *)
(***************************************************************************)
InitCount ==
    InitSpec(Users,
             {Row(c, StateIdle, <<"">>, FALSE) : c \in 1..(TriggerMessageCount - 1)},
             {NoSession, Session(1, <<"root">>)}, {<<>>}, {FALSE}, <<1, 1>>, 0)

NextCount ==
    \/ \E u \in Users, text \in {TextHello, TextSaw} : Start(1, "message", u, <<text>>)
    \/ \E u \in Users : Start(2, "message", u, <<TextHello>>)
    \/ \E u \in Users : Start(2, "callback", u, <<"goto", "1", "no", "power">>)
    \/ \E p \in Slots : Goroutine(p)
    \/ \E n \in TriggerCounts : UpdateSettings(n)

SpecCount == InitCount /\ [][NextCount]_vars

(***************************************************************************)
(* SpecConsent: a press of email_consent_yes beside a press of             *)
(* email_confirm, for a user who has been asked to consent.                *)
(***************************************************************************)
InitConsent ==
    InitSpec(Users, {Row(0, StateAwaitingEmailConsent, e, FALSE) : e \in Emails},
             {NoSession, Session(1, <<"root">>)}, {<<>>, <<0>>}, {FALSE}, <<1, 1>>, 0)

NextConsent ==
    \/ \E u \in Users : Start(1, "callback", u, <<"email", "consent", "yes">>)
    \/ \E u \in Users, e \in Emails : Start(2, "callback", u, <<"email", "confirm">> \o e)
    \/ \E p \in Slots : RateLimiter(p)
    \/ \E p \in Slots : Handler(p)

SpecConsent == InitConsent /\ [][NextConsent]_vars

(***************************************************************************)
(* SpecCalls: the pure functions of fsm.go applied to inputs drawn from    *)
(* bounded sets; ev records the call made and its result.                  *)
(***************************************************************************)
KeyAtoms == {"a", "b", "no", "root", ""}
\* the strings of at most MaxKeyLen segments over KeyAtoms
Keys == UNION {[1..n -> KeyAtoms] : n \in 1..MaxKeyLen}

Call1(fn, arg, result) ==
    /\ ev = NoEvent
    /\ ev' = [path |-> fn, data |-> arg, out |-> <<result>>]
    /\ UNCHANGED <<now, rate_limits, users, user_sessions, settings, openAIEnabled, proc,
                   budget, admitted>>

CallGetPreviousStepKey(key) == Call1("GetPreviousStepKey", key, GetPreviousStepKey(key))

\* the step lists GetFSMScenarioSteps can return for a scenario that holds
\* some of three steps, in any order of their ids
StepLists ==
    LET rows == {FSMSteps[i] : i \in {k \in 1..Len(FSMSteps) :
                    /\ FSMSteps[k].scenario_id = 1
                    /\ FSMSteps[k].step_key \in
                         {<<"root">>, <<"no", "power">>, <<"stops", "immediately">>}}}
    IN {l \in UNION {[1..n -> rows] : n \in 0..Cardinality(rows)} :
            \A i, j \in DOMAIN l : i # j => l[i] # l[j]}

CallGetFirstStep(steps) == Call1("GetFirstStep", steps, GetFirstStepOf(steps))

\* steps of any scenario with a stored key or a drawn key of at most two
\* segments, and any state_type the column admits
DrawnSteps ==
    {[scenario_id |-> id, step_key |-> k, is_final |-> (st = "final"),
      next_step_key |-> NoKey, state_type |-> st] :
        id \in {FSMScenarios[i].id : i \in 1..Len(FSMScenarios)},
        k \in {key \in Keys : Len(key) <= 2}
                 \cup {FSMSteps[i].step_key : i \in 1..Len(FSMSteps)},
        st \in {"start", "intermediate", "final"}}

CallGenerateButtonsForStep(step) ==
    Call1("GenerateButtonsForStep", <<step>>, GenerateButtonsForStep(step, step.scenario_id))

EmailAlphabet == {"a", "1", "@", ".", " "}
\* the strings of at most MaxEmailLen characters over EmailAlphabet
EmailStrings == UNION {[1..n -> EmailAlphabet] : n \in 0..MaxEmailLen}

CallIsValidEmail(cs) == Call1("IsValidEmail", cs, IsValidEmailString(cs))

\* a behaviour makes one call: the inputs left to draw from a set
Undrawn(inputs) == IF ev = NoEvent THEN inputs ELSE {}

InitCalls == InitSpec(Users, {NoUser}, {NoSession}, {<<>>}, {FALSE}, <<0, 0>>, 0)

NextCalls ==
    \/ \E cs \in Undrawn(EmailStrings) : CallIsValidEmail(cs)
    \/ \E key \in Undrawn(Keys \cup {FSMSteps[i].step_key : i \in 1..Len(FSMSteps)}) :
          CallGetPreviousStepKey(key)
    \/ \E step \in Undrawn(DrawnSteps) : CallGenerateButtonsForStep(step)
    \/ \E steps \in Undrawn(StepLists) : CallGetFirstStep(steps)

SpecCalls == InitCalls /\ [][NextCalls]_vars

(***************************************************************************)
(* Properties.  A goroutine that has returned stays in its slot with what  *)
(* it found (pre), what it left (post), what it sent (out) and the writes  *)
(* it made (wrote).  The properties of one event are stated for the events *)
(* processed with no other event of the same user in flight; what events   *)
(* of one user do to each other is the subject of C10, C38 and C39.        *)
(***************************************************************************)
NavigationHandlers ==
    {"handleStartScenario", "handleGoto", "handleOption", "handleAction", "handleBack"}
OverlayHandlers ==
    {"handleSiteLinkYes", "handleSiteLinkNo", "handleSiteLinkYesPost",
     "handleSiteLinkNoPost", "handleEmailConsentYes", "handleEmailConsentNo",
     "handleEmailConfirm"}

\* the slots whose goroutine has returned after running alone
Finished == {p \in Slots : proc[p].pc = "done" /\ proc[p].alone}
\* those of them that handled a message or a press the rate limiter admitted
\* and whose reads of the users row succeeded
Processed ==
    {p \in Finished : /\ proc[p].kind \in {"message", "callback"}
                      /\ proc[p].path \notin {"rejected", "failed", "no user"}}
\* those of them that handled a text message that is not /start
TextProcessed ==
    {p \in Processed : proc[p].kind = "message" /\ proc[p].data # <<TextStart>>}

\* C1: while the overlay state of a user is not Idle, no text message and no
\* start_scenario/goto/option/action/back press changes that user's session.
C1_SessionSuspended ==
    \A p \in Processed :
        LET e == proc[p] IN
        (/\ e.pre.user.fsm_state # StateIdle
         /\ \/ e.kind = "message" /\ e.data # <<TextStart>>
            \/ e.kind = "callback" /\ HandlerOf(e.data) \in NavigationHandlers)
        => e.post.session = e.pre.session

\* the edges of the overlay's transition table, with the event that takes each
TableEdge(pre, post, e) ==
    \/ pre = StateIdle /\ post = StateOfferingSiteLink /\ e.path = "offerSiteLink"
    \/ pre = StateOfferingSiteLink /\ post = StateAwaitingEmail
         /\ e.path = "handleSiteLinkYes"
    \/ pre = StateOfferingSiteLink /\ post = StateIdle /\ e.path = "handleSiteLinkNo"
    \/ pre = StateOfferingSiteLink /\ post = StateOfferingSitePost
         /\ e.path = "handleSiteLinkYesPost"
    \/ pre = StateOfferingSitePost /\ post = StateIdle
         /\ e.path = "handleSiteLinkNoPost"
    \/ pre = StateAwaitingEmail /\ post = StateAwaitingEmailConsent
         /\ \/ e.path = "handleEmailConfirm"
            \/ e.kind = "message" /\ IsValidEmail(e.data[1])
    \/ pre = StateAwaitingEmailConsent /\ post = StateIdle
         /\ e.path \in {"handleEmailConsentYes", "handleEmailConsentNo"}
    \/ post = StateIdle /\ e.path = "handleStartCommand"

\* the states in which the table lists an overlay press
ListedIn(handler) ==
    CASE handler \in {"handleSiteLinkYes", "handleSiteLinkNo", "handleSiteLinkYesPost"}
           -> {StateOfferingSiteLink}
      [] handler = "handleSiteLinkNoPost" -> {StateOfferingSitePost}
      [] handler = "handleEmailConfirm" -> {StateAwaitingEmail}
      [] handler \in {"handleEmailConsentYes", "handleEmailConsentNo"}
           -> {StateAwaitingEmailConsent}
      [] OTHER -> {}

\* C3: every change of the overlay state is an edge of the transition table,
\* and an overlay press in a state the table does not list for it leaves
\* overlay state, email and consent_granted unchanged.
C3_OverlayFollowsTable ==
    \A p \in Processed :
        LET e == proc[p] IN
        /\ e.post.user.fsm_state # e.pre.user.fsm_state
             => TableEdge(e.pre.user.fsm_state, e.post.user.fsm_state, e)
        /\ (/\ e.path \in OverlayHandlers
            /\ e.pre.user.fsm_state \notin ListedIn(e.path))
             => /\ e.post.user.fsm_state = e.pre.user.fsm_state
                /\ e.post.user.email = e.pre.user.email
                /\ e.post.user.consent_granted = e.pre.user.consent_granted

\* C4: text that fails the email grammar, sent in AwaitingEmail, leaves the
\* overlay in AwaitingEmail, is answered by the re-prompt, and changes neither
\* email nor consent_granted.
C4_InvalidEmailReprompt ==
    \A p \in TextProcessed :
        LET e == proc[p] IN
        (e.pre.user.fsm_state = StateAwaitingEmail /\ ~IsValidEmail(e.data[1]))
        => /\ e.post.user.fsm_state = StateAwaitingEmail
           /\ e.out = <<EmailRepromptMessage>>
           /\ e.post.user.email = e.pre.user.email
           /\ e.post.user.consent_granted = e.pre.user.consent_granted

\* C5: text that matches the email grammar, sent in AwaitingEmail, moves the
\* overlay to AwaitingEmailConsent and stores that address with
\* consent_granted = false.
C5_ValidEmailStored ==
    \A p \in TextProcessed :
        LET e == proc[p] IN
        (e.pre.user.fsm_state = StateAwaitingEmail /\ IsValidEmail(e.data[1]))
        => /\ e.post.user.fsm_state = StateAwaitingEmailConsent
           /\ e.post.user.email = e.data
           /\ e.post.user.consent_granted = FALSE

\* C6: once handleEmailConsentNo has run for a user in AwaitingEmailConsent the
\* overlay is Idle, consent_granted is false and the stored email is the one
\* stored before, whatever consent_granted was before the press.
C6_ConsentNo ==
    \A p \in Processed :
        LET e == proc[p] IN
        (/\ e.kind = "callback" /\ e.data = <<"email", "consent", "no">>
         /\ e.path = "handleEmailConsentNo"
         /\ e.pre.user.fsm_state = StateAwaitingEmailConsent)
        => /\ e.post.user.fsm_state = StateIdle
           /\ e.post.user.consent_granted = FALSE
           /\ e.post.user.email = e.pre.user.email

\* the entries of a timestamp list that lie within the 60 seconds before t
Trailing(list, t) == {i \in DOMAIN list : list[i] >= t - Window}
\* the entries of list at the positions in keep, in their order
RECURSIVE Keep(_, _)
Keep(list, keep) ==
    IF list = <<>> THEN <<>>
    ELSE LET rest == Keep(Tail(list), {i - 1 : i \in keep \ {1}})
         IN IF 1 \in keep THEN <<Head(list)>> \o rest ELSE rest

\* C8: every event meets the rate limiter first: when the limit is reached the
\* event changes neither the timestamp list nor the user's row nor the
\* session; otherwise its timestamp is recorded before anything else is
\* written.
C8_RateLimitGate ==
    \A p \in Finished :
        LET e == proc[p]
            trailing == Trailing(e.pre.rate, e.t)
        IN e.kind \in {"message", "callback"} =>
             IF Cardinality(trailing) >= RateLimitPerMin
             THEN /\ e.path = "rejected"
                  /\ e.wrote = <<>>
                  /\ e.post = e.pre
             ELSE /\ e.path # "rejected"
                  /\ e.wrote # <<>> /\ e.wrote[1] = "CheckRateLimit"
                  /\ e.post.rate = Append(Keep(e.pre.rate, trailing), e.t)

\* a button press of a user in a scenario was turned away at the limit
C8_Witness ==
    \E p \in Finished :
        /\ proc[p].path = "rejected" /\ proc[p].kind = "callback"
        /\ proc[p].data = <<"goto", "1", "no", "power">>
        /\ proc[p].pre.user.exists
        /\ proc[p].pre.session.exists
        /\ Len(proc[p].post.rate) >= RateLimitPerMin

\* C19: after a /start command has been processed the user has no session and
\* the overlay state is idle; the command is not counted (message_count is 0
\* afterwards, and no increment was made) and the diagnostic engine does not
\* see it: the only reply is the start message with the scenario buttons.
C19_StartResets ==
    \A p \in Processed :
        LET e == proc[p] IN
        (e.kind = "message" /\ (e.data = <<TextStart>> \/ e.path = "handleStartCommand"))
        => /\ e.data = <<TextStart>> /\ e.path = "handleStartCommand"
           /\ ~e.post.session.exists
           /\ e.post.user.exists
           /\ e.post.user.fsm_state = StateIdle
           /\ e.post.user.message_count = 0
           /\ \A i \in DOMAIN e.wrote : e.wrote[i] # "UpdateUserMessageCount"
           /\ e.out = <<ScenarioSelection>>

\* /start arrived while the user was in a scenario, in an overlay state, with
\* counted messages
C19_Witness ==
    \E p \in Processed :
        /\ proc[p].kind = "message" /\ proc[p].path = "handleStartCommand"
        /\ proc[p].pre.session.exists
        /\ proc[p].pre.user.fsm_state # StateIdle
        /\ proc[p].pre.user.message_count > 0
        /\ ~proc[p].post.session.exists
        /\ proc[p].post.user.fsm_state = StateIdle

\* the event found the user in a scenario
HadSession(e) == e.pre.session.exists /\ e.pre.session.scenario_id # 0

\* C22: a text message of a user with an active session never changes the
\* scenario of the session: afterwards the session is gone or is in the same
\* scenario, also when the text carries a keyword of another scenario.
C22_SelectorOnlyWithoutSession ==
    \A p \in Processed :
        LET e == proc[p] IN
        (e.kind = "message" /\ e.path = "ProcessMessage" /\ HadSession(e))
        => \/ ~e.post.session.exists
           \/ e.post.session.scenario_id = e.pre.session.scenario_id

\* a user in scenario 1 sent a text with the keyword of scenario 2 and stayed
\* in scenario 1
C22_Witness ==
    \E p \in Processed :
        /\ proc[p].kind = "message" /\ proc[p].path = "ProcessMessage"
        /\ proc[p].data = <<TextSaw>>
        /\ GetFSMScenarioByTrigger(TextSaw).id = 2
        /\ proc[p].pre.session.exists /\ proc[p].pre.session.scenario_id = 1
        /\ proc[p].post.session.exists /\ proc[p].post.session.scenario_id = 1

\* the scenario the event starts, 0 when it starts none: a start_scenario
\* press for a stored scenario, or a text of a user without a session that a
\* keyword matches
StartedScenario(e) ==
    IF e.kind = "callback" /\ e.path = "handleStartScenario"
    THEN IF \E i \in 1..Len(FSMScenarios) : e.data = StartScenarioToken(FSMScenarios[i].id)
         THEN Atoi(<<e.data[3]>>) ELSE 0
    ELSE IF e.kind = "message" /\ e.path = "ProcessMessage" /\ ~HadSession(e)
    THEN GetFSMScenarioByTrigger(e.data[1]).id
    ELSE 0

\* the goto tokens of the stored steps of a scenario whose key is one of the
\* top-level problem keys
ProblemTokens(id) ==
    {<<"goto">> \o Itoa(id) \o FSMSteps[i].step_key :
        i \in {k \in 1..Len(FSMSteps) :
                 FSMSteps[k].scenario_id = id /\ FSMSteps[k].step_key \in ProblemKeywords}}

\* C24: starting a scenario, by a text that selects it or by a
\* start_scenario_<id> press, sets the session to that scenario and its first
\* step and sends that step's message with one goto button per top-level
\* problem step of the scenario; a start_scenario token whose id is not a
\* number or names no scenario leaves the session unchanged and sends nothing.
C24_ScenarioStart ==
    \A p \in Processed :
        LET e == proc[p]
            id == StartedScenario(e)
        IN /\ id # 0
              => /\ e.post.session = Session(id, GetFirstStep(id).step_key)
                 /\ Len(e.out) = 1
                 /\ e.out[1].text = "step.Message"
                 /\ e.out[1].scenario_id = id
                 /\ e.out[1].step_key = GetFirstStep(id).step_key
                 /\ Range(e.out[1].buttons) = ProblemTokens(id)
                 /\ Len(e.out[1].buttons) = Cardinality(ProblemTokens(id))
           /\ (e.kind = "callback" /\ e.path = "handleStartScenario" /\ id = 0)
              => /\ e.post.session = e.pre.session
                 /\ e.out = <<>>

\* a user in scenario 1 pressed start_scenario_3 and got the root of
\* scenario 3 with its three problem buttons
C24_Witness ==
    \E p \in Processed :
        /\ proc[p].path = "handleStartScenario"
        /\ proc[p].data = <<"start", "scenario", "3">>
        /\ proc[p].pre.session.exists /\ proc[p].pre.session.scenario_id = 1
        /\ proc[p].post.session = Session(3, <<"root">>)
        /\ proc[p].out[1].buttons =
             <<<<"goto", "3", "no", "power">>, <<"goto", "3", "blade", "no", "move">>,
               <<"goto", "3", "vibration", "drift">>>>

\* the session after a press of token data, for a user whose session is on
\* step key of scenario id and whose press reaches its handler
SessionAfterPress(id, key, data) ==
    LET row == Row(0, StateIdle, <<"">>, FALSE)
        s == [users |-> <<row>>, sessions |-> <<Session(id, key)>>, rate |-> << <<>> >>,
              out |-> <<>>]
    IN Run(s, 1, Dispatch(row, data)).sessions[1]

\* the step keys of scenario id a user on one of keys is on after one press of
\* a button of the keyboard GenerateButtonsForStep gives the step
OnePress(id, keys) ==
    {after.current_step_key :
        after \in {a \in UNION {{SessionAfterPress(id, key, data) :
                                    data \in Range(GenerateButtonsForStep(
                                                GetFSMScenarioStep(id, key), id))} :
                                key \in keys} :
                      a.exists /\ a.scenario_id = id}}

RECURSIVE ReachedWithin(_, _, _)
\* the step keys reached from keys by at most n such presses
ReachedWithin(n, id, keys) ==
    IF n = 0 THEN keys
    ELSE ReachedWithin(n - 1, id, keys \cup OnePress(id, keys))

\* the final steps of scenario id that no sequence of generated buttons
\* reaches from root
Unreached(id) ==
    LET reached == ReachedWithin(Len(GetFSMScenarioSteps(id)), id, {<<"root">>})
    IN {i \in 1..Len(FSMSteps) :
           /\ FSMSteps[i].scenario_id = id /\ FSMSteps[i].is_final
           /\ FSMSteps[i].step_key \notin reached}

\* C36: once a scenario has been started and its root is shown, every final
\* step of the scenario is reached from root by some sequence of presses of
\* buttons the engine generates for the step the session is on.
C36_FinalStepsReachable ==
    \A p \in Processed :
        LET id == StartedScenario(proc[p]) IN
        (id # 0 /\ GetFirstStep(id).step_key = <<"root">>) => Unreached(id) = {}

\* the stored steps for which some keyboard carries a goto button, each with
\* the callback data of that button
GeneratedGoto ==
    {[scenario_id |-> FSMSteps[i].scenario_id, step_key |-> FSMSteps[i].step_key,
      token |-> GotoToken(FSMSteps[i].scenario_id, FSMSteps[i].step_key)] :
        i \in {k \in 1..Len(FSMSteps) :
                 \E j \in 1..Len(FSMSteps) :
                    GotoToken(FSMSteps[k].scenario_id, FSMSteps[k].step_key)
                      \in Range(GenerateButtonsForStep(FSMSteps[j], FSMSteps[j].scenario_id))}}

\* C11: a press of the goto button generated for (scenario id, step key), also
\* for keys that contain underscores, is decoded to that same pair: after
\* handleGoto has run the session is exactly that scenario and step.
C11_GotoRoundTrip ==
    \A p \in Processed : \A b \in GeneratedGoto :
        LET e == proc[p] IN
        (e.kind = "callback" /\ e.path = "handleGoto" /\ e.data = b.token)
        => e.post.session = Session(b.scenario_id, b.step_key)

\* the goto button of a step whose key has six segments was pressed
C11_Witness ==
    \E p \in Processed :
        /\ proc[p].kind = "callback" /\ proc[p].path = "handleGoto"
        /\ proc[p].data = <<"goto", "1", "no", "power", "indicator", "lit", "no", "reaction">>
        /\ \E b \in GeneratedGoto : b.token = proc[p].data
        /\ proc[p].post.session.current_step_key =
             <<"no", "power", "indicator", "lit", "no", "reaction">>

\* C12: a press of the Back button generated for a step other than root moves
\* the session to previousStepKey of that step's full key, when that step exists.
C12_BackToParent ==
    \A p \in Processed : \A i \in 1..Len(FSMSteps) :
        LET e == proc[p]
            id == FSMSteps[i].scenario_id
            key == FSMSteps[i].step_key
            parent == GetPreviousStepKey(key)
        IN (/\ e.kind = "callback" /\ e.path = "handleBack"
            /\ e.data = BackToken(id, key)
            /\ BackToken(id, key) \in Range(GenerateButtonsForStep(FSMSteps[i], id))
            /\ key # <<"root">>
            /\ GetFSMScenarioStep(id, parent) # NoStep)
           => e.post.session = Session(id, parent)

\* C13: a press of back_<id>_root leaves the user without a session and is
\* answered by the start message carrying one start_scenario_<id> button per
\* scenario, not by a step.
C13_BackFromRoot ==
    \A p \in Processed :
        LET e == proc[p] IN
        (/\ e.kind = "callback" /\ e.path = "handleBack"
         /\ Len(e.data) = 3 /\ e.data[3] = "root")
        => /\ ~e.post.session.exists
           /\ Len(e.out) = 1
           /\ e.out[1].text = "GetStartMessage" /\ e.out[1].step_key = NoKey
           /\ e.out[1].buttons =
                [i \in 1..Len(FSMScenarios) |->
                    <<"start", "scenario", Digits[FSMScenarios[i].id + 1]>>]

\* Back was pressed on the root of a scenario the user was in
C13_Witness ==
    \E p \in Processed :
        /\ proc[p].kind = "callback" /\ proc[p].path = "handleBack"
        /\ proc[p].data = <<"back", "1", "root">>
        /\ proc[p].pre.session.exists /\ proc[p].pre.session.scenario_id = 1
        /\ ~proc[p].post.session.exists
        /\ Len(proc[p].out[1].buttons) = Len(FSMScenarios)

\* the scenario id and the step key a goto token decodes to
GotoTarget(data) ==
    [scenario_id |-> Atoi(SplitN(data, 3)[2]), step_key |-> SplitN(data, 3)[3]]

\* C15: after a goto press that names a step the scenario does not have, the
\* user has no session, and nothing is sent (the press is unhandled).
C15_GotoMissingStep ==
    \A p \in Processed :
        LET e == proc[p] IN
        (/\ e.kind = "callback" /\ e.path = "handleGoto" /\ Len(e.data) >= 3
         /\ GetFSMScenarioStep(GotoTarget(e.data).scenario_id,
                               GotoTarget(e.data).step_key) = NoStep)
        => /\ ~e.post.session.exists
           /\ e.out = <<>>

\* C16: a goto press whose scenario id differs from the scenario of the
\* user's session leaves the session where it was.
C16_GotoSameScenario ==
    \A p \in Processed :
        LET e == proc[p] IN
        (/\ e.kind = "callback" /\ e.path = "handleGoto" /\ Len(e.data) >= 3
         /\ e.pre.session.exists
         /\ GotoTarget(e.data).scenario_id # e.pre.session.scenario_id)
        => e.post.session = e.pre.session

\* the event showed the user a step that is final
LandedOnFinal(e) ==
    /\ e.path \in NavigationHandlers \cup {"ProcessMessage"}
    /\ e.out # <<>>
    /\ e.out[1].step_key # NoKey
    /\ GetFSMScenarioStep(e.out[1].scenario_id, e.out[1].step_key).is_final

\* C17: once an event that lands the user on a final step has been processed,
\* by a text message or by a button press, that user has no session.
C17_FinalStepEndsSession ==
    \A p \in Processed : LandedOnFinal(proc[p]) => ~proc[p].post.session.exists

\* C26: a press whose token has an unrecognized tag or malformed fields, once
\* it reaches the dispatch of processCallbackQuery, leaves the user's session
\* as it was and sends nothing.
C26_MalformedTokenIgnored ==
    \A p \in Processed :
        LET e == proc[p] IN
        (/\ e.kind = "callback" /\ e.data \in MalformedTokens
         /\ e.path = HandlerOf(e.data))
        => /\ e.post.session = e.pre.session
           /\ e.out = <<>>

\* C35: in every reachable state the session of a user has a current_step_key
\* exactly when it has a scenario_id, whichever operation wrote it.
C35_StepKeyIffScenario ==
    \A u \in DOMAIN user_sessions :
        /\ (user_sessions[u].scenario_id # 0) <=> (user_sessions[u].current_step_key # NoKey)
        /\ ~user_sessions[u].exists
              => (user_sessions[u].scenario_id = 0 /\ user_sessions[u].current_step_key = NoKey)

\* a Back press from the root of scenario 1 removed a session that had both
\* fields set
C35_Witness ==
    \E p \in Processed :
        /\ proc[p].path = "handleBack" /\ proc[p].data = <<"back", "1", "root">>
        /\ proc[p].pre.session = Session(1, <<"root">>)
        /\ user_sessions[proc[p].user] = NoSession

\* the stored step whose keyboard carries the Back button pressed, for a user
\* whose session is on that step in a scenario that has a root step; the press
\* has passed the rate limiter
BackPressedOn(e, i) ==
    LET id == FSMSteps[i].scenario_id
        key == FSMSteps[i].step_key
    IN /\ e.kind = "callback" /\ HandlerOf(e.data) = "handleBack"
       /\ e.data = BackToken(id, key)
       /\ e.data \in Range(GenerateButtonsForStep(FSMSteps[i], id))
       /\ GetFSMScenarioStep(id, <<"root">>) # NoStep
       /\ e.pre.session = Session(id, key)

\* C37: a press of the Back button generated for a step of a scenario that has
\* a root step, once the rate limiter has admitted it, is answered, and leaves
\* the user without a session or with a session on a stored step of the same
\* scenario.
C37_BackNeverStrands ==
    \A p \in Processed : \A i \in 1..Len(FSMSteps) :
        LET e == proc[p] IN
        BackPressedOn(e, i)
        => /\ e.out # <<>>
           /\ \/ ~e.post.session.exists
              \/ /\ e.post.session.scenario_id = FSMSteps[i].scenario_id
                 /\ GetFSMScenarioStep(FSMSteps[i].scenario_id,
                                       e.post.session.current_step_key) # NoStep

\* Back pressed on no_power_indicator_lit, whose derived parent
\* no_power_indicator is not stored: the root of scenario 1 is shown
C37_Witness ==
    \E p \in Processed :
        /\ proc[p].path = "handleBack"
        /\ \E i \in 1..Len(FSMSteps) :
              /\ BackPressedOn(proc[p], i)
              /\ FSMSteps[i].step_key = <<"no", "power", "indicator", "lit">>
        /\ proc[p].post.session = Session(1, <<"root">>)
        /\ proc[p].out[1].step_key = <<"root">>

\* the slots whose CheckRateLimit call has returned after running alone
RateCalls == {p \in Finished : proc[p].kind = "CheckRateLimit"}

\* C7: a CheckRateLimit call that runs alone returns false exactly when the
\* stored timestamps within the trailing 60 seconds number maxPerMinute or
\* more; a rejected call stores nothing, an admitted one stores the pruned list
\* with the current timestamp appended; so, when the calls of a user run one
\* at a time, no 60-second window holds more than maxPerMinute admitted
\* events of that user.
C7_SequentialAdmit ==
    /\ \A p \in RateCalls :
         LET e == proc[p]
             trailing == Trailing(e.pre.rate, e.t)
         IN /\ e.allowed <=> Cardinality(trailing) < RateLimitPerMin
            /\ e.post.rate =
                 IF e.allowed THEN Append(Keep(e.pre.rate, trailing), e.t) ELSE e.pre.rate
    /\ \A u \in DOMAIN admitted :
         (\A i \in DOMAIN admitted[u] : admitted[u][i].alone)
         => \A i \in DOMAIN admitted[u] :
               Cardinality({j \in DOMAIN admitted[u] :
                              /\ admitted[u][j].t >= admitted[u][i].t
                              /\ admitted[u][j].t <= admitted[u][i].t + Window})
                 <= RateLimitPerMin

\* a call was turned away at the limit after an older timestamp had been
\* pruned, all calls having run one at a time
C7_Witness ==
    \E p \in RateCalls :
        /\ ~proc[p].allowed
        /\ Len(proc[p].pre.rate) = RateLimitPerMin
        /\ Len(admitted[proc[p].user]) > RateLimitPerMin
        /\ \A i \in DOMAIN admitted[proc[p].user] : admitted[proc[p].user][i].alone
        /\ admitted[proc[p].user][1].t < proc[p].t - Window
        /\ proc[p].post.rate = proc[p].pre.rate

\* C9: a call that finds only timestamps older than 60 seconds answers and
\* stores what a call with no history does: it is admitted when
\* maxPerMinute >= 1 and the stored list is the current timestamp alone.
C9_StaleIsEmpty ==
    \A p \in RateCalls :
        LET e == proc[p] IN
        (\A i \in DOMAIN e.pre.rate : e.pre.rate[i] < e.t - Window)
        => /\ e.allowed <=> RateLimitPerMin >= 1
           /\ e.allowed => e.post.rate = <<e.t>>

\* a call found a history all of which was stale
C9_Witness ==
    \E p \in RateCalls :
        /\ proc[p].pre.rate # <<>>
        /\ \A i \in DOMAIN proc[p].pre.rate : proc[p].pre.rate[i] < proc[p].t - Window
        /\ proc[p].allowed
        /\ proc[p].post.rate = <<proc[p].t>>

\* the calls in the two slots ran side by side for one user, both read the
\* same stored list and both have returned true
BothAdmittedOnOneRead ==
    /\ \A p \in Slots : /\ proc[p].pc = "done" /\ proc[p].kind = "CheckRateLimit"
                        /\ proc[p].allowed /\ ~proc[p].alone
    /\ proc[1].user = proc[2].user
    /\ proc[1].seen = proc[2].seen

\* C10: when two CheckRateLimit calls of one user both read the list before
\* either writes it, both return true and the list stored after both is what
\* one of them wrote: its retained timestamps and its own timestamp, without
\* the timestamp of the other call.
C10_LostTimestamp ==
    BothAdmittedOnOneRead =>
        /\ \E p \in Slots :
             rate_limits[proc[p].user] = Append(proc[p].stamps, proc[p].t)
        /\ \A p \in Slots :
             Len(rate_limits[proc[p].user]) <= Len(proc[p].seen) + 1

\* two calls were admitted into the one remaining slot, and the timestamp of
\* one of them is not in the stored list
C10_Witness ==
    /\ BothAdmittedOnOneRead
    /\ \A p \in Slots : Len(proc[p].stamps) = RateLimitPerMin - 1
    /\ \E p \in Slots :
         \A i \in DOMAIN rate_limits[proc[p].user] :
            rate_limits[proc[p].user][i] # proc[p].t

\* the slots whose call of FSM.ProcessMessage has returned after running alone
EngineCalls == {p \in Finished : proc[p].kind = "ProcessMessage"}

\* the session a list of statements leaves behind when it finds session
SessionAfter(session, todo) ==
    Run([users |-> <<NoUser>>, sessions |-> <<session>>, rate |-> << <<>> >>,
         out |-> <<>>], 1, todo).sessions[1]

\* C18: a text message for a user whose session names a step the scenario does
\* not have deletes the session and is reported unhandled, without an error.
C18_InvalidStepRecovery ==
    \A p \in EngineCalls :
        LET e == proc[p] IN
        (/\ HadSession(e)
         /\ GetFSMScenarioStep(e.pre.session.scenario_id,
                               e.pre.session.current_step_key) = NoStep)
        => /\ ~e.post.session.exists
           /\ e.result = [response |-> EmptyResponse, handled |-> FALSE, err |-> FALSE]

\* the engine found a session on step "missing" of scenario 1 and cleared it
C18_Witness ==
    \E p \in EngineCalls :
        /\ proc[p].pre.session = Session(1, <<"missing">>)
        /\ ~proc[p].post.session.exists
        /\ ~proc[p].result.handled

\* the NLU answers that name no scenario
NLUFailures == {"error", "unparseable", "null", "no_such_scenario"}

\* what FSM.ProcessMessage does on the event's input with the NLU switched off
WithNLUDisabled(e) == ProcessMessage(e.pre.session, e.data[1], FALSE, "none")

\* C20: with no active session and the NLU switched on, an NLU call that
\* errors, is unparseable, is null or names no scenario leaves ProcessMessage
\* with the outcome it has with the NLU switched off: the keyword match alone
\* decides whether a scenario starts, and no error is returned.
C20_NLUFailureFallsBack ==
    \A p \in EngineCalls :
        LET e == proc[p]
            off == WithNLUDisabled(e)
        IN (openAIEnabled /\ ~HadSession(e) /\ e.nlu \in NLUFailures)
           => /\ e.post.session = SessionAfter(e.pre.session, off.todo)
              /\ e.result = [response |-> off.response, handled |-> off.handled,
                             err |-> FALSE]
              /\ e.result.handled = (GetFSMScenarioByTrigger(e.data[1]) # NoScenario)

\* the NLU call failed on a text that carries a keyword, and the keyword
\* started the scenario
C20_Witness ==
    \E p \in EngineCalls :
        /\ openAIEnabled
        /\ ~proc[p].pre.session.exists
        /\ proc[p].nlu = "error" /\ proc[p].data = <<TextGrinder>>
        /\ proc[p].result.handled
        /\ proc[p].post.session = Session(1, <<"root">>)

\* the input of the event selects no scenario, by the NLU answer or by a
\* keyword
NothingSelected(e) ==
    /\ ~HadSession(e)
    /\ recognizeScenarioWithAI(openAIEnabled, e.nlu) = NoScenario
    /\ GetFSMScenarioByTrigger(e.data[1]) = NoScenario

\* C21: when the user has no session and neither the NLU nor the keywords
\* select a scenario, ProcessMessage returns unhandled without an error and
\* writes no session, and processMessage answers with the generic
\* acknowledgement.
C21_NoMatchGeneric ==
    /\ \A p \in EngineCalls :
          LET e == proc[p] IN
          NothingSelected(e)
          => /\ e.post.session = e.pre.session
             /\ e.result = [response |-> EmptyResponse, handled |-> FALSE, err |-> FALSE]
    /\ \A p \in Processed :
          LET e == proc[p] IN
          (e.kind = "message" /\ e.path = "ProcessMessage" /\ NothingSelected(e))
          => /\ e.post.session = e.pre.session
             /\ e.out = <<GenericResponse>>

\* with the NLU switched on, a text without a keyword got an NLU answer that
\* names no scenario and was answered by the generic acknowledgement
C21_Witness ==
    \E p \in Processed :
        /\ proc[p].kind = "message" /\ proc[p].path = "ProcessMessage" /\ openAIEnabled
        /\ proc[p].data = <<TextHello>> /\ proc[p].nlu = "no_such_scenario"
        /\ ~proc[p].pre.session.exists /\ ~proc[p].post.session.exists
        /\ proc[p].out = <<GenericResponse>>

\* the step the session named before the call, and the step its next_step_key
\* names in the same scenario (NoStep when the key is absent or names none)
SessionStep(e) == GetFSMScenarioStep(e.pre.session.scenario_id, e.pre.session.current_step_key)
SessionNextStep(e) ==
    IF SessionStep(e).next_step_key = NoKey THEN NoStep
    ELSE GetFSMScenarioStep(e.pre.session.scenario_id, SessionStep(e).next_step_key)

\* C31: a text message with a session on a non-final step moves the session to
\* the step next_step_key names in the same scenario and returns that step's
\* message and buttons; when next_step_key is absent or names no step, the
\* session is deleted and the current step's message is returned as a handled
\* reply without buttons.
C31_TextAdvance ==
    \A p \in EngineCalls :
        LET e == proc[p] IN
        (HadSession(e) /\ SessionStep(e) # NoStep /\ ~SessionStep(e).is_final)
        => /\ e.result.handled /\ ~e.result.err
           /\ IF SessionNextStep(e) # NoStep
              THEN /\ e.post.session =
                        Session(e.pre.session.scenario_id, SessionNextStep(e).step_key)
                   /\ e.result.response.scenario_id = e.pre.session.scenario_id
                   /\ e.result.response.step_key = SessionNextStep(e).step_key
                   /\ e.result.response.buttons =
                        GenerateButtonsForStep(SessionNextStep(e), e.pre.session.scenario_id)
              ELSE /\ ~e.post.session.exists
                   /\ e.result.response.scenario_id = e.pre.session.scenario_id
                   /\ e.result.response.step_key = SessionStep(e).step_key
                   /\ e.result.response.buttons = <<>>

\* a text on step no_power of scenario 1, which is not final and whose
\* next_step_key names no stored step, ended the session with the step's
\* message and no button
C31_Witness ==
    \E p \in EngineCalls :
        /\ proc[p].pre.session = Session(1, <<"no", "power">>)
        /\ ~proc[p].post.session.exists
        /\ proc[p].result.handled
        /\ proc[p].result.response.step_key = <<"no", "power">>
        /\ proc[p].result.response.buttons = <<>>

\* the step key and the scenario an option token names: what follows the
\* scenario id, the option number included
OptionTarget(data) == SubSeq(data, 3, Len(data))
OptionScenario(data) == Atoi(<<data[2]>>)

\* C32: a press of the option button generated for a step resolves its target
\* as <stepKey>_<n>, also for a step key with underscores: the session is set
\* to that step when the scenario has it and is unchanged when it has not.
C32_OptionTarget ==
    \A p \in Processed :
        LET e == proc[p] IN
        (e.path = "handleOption" /\ e.data \in OptionTokens)
        => IF GetFSMScenarioStep(OptionScenario(e.data), OptionTarget(e.data)) # NoStep
           THEN e.post.session = Session(OptionScenario(e.data), OptionTarget(e.data))
           ELSE e.post.session = e.pre.session

\* C27: when a storage write fails while an event is processed, processing
\* stops there: the event makes no write and sends nothing after the write
\* that failed.
C27_FailedWriteAborts ==
    \A p \in Finished :
        LET e == proc[p] IN
        e.failed # <<>>
        => /\ Len(e.wrote) = e.failed[1].wrote
           /\ Len(e.out) = e.failed[1].sent

\* C28: processing of a text message always terminates: a goroutine waiting in
\* the NLU call eventually returns, whether or not the collaborator answers.
C28_MessageTerminates ==
    \A p \in Slots : (proc[p].pc = "client.Do") ~> (proc[p].pc = "done")

\* C29: events of different users are independent: a step changes the rate
\* record, the user row (message_count, overlay state, email, consent) or the
\* session of a user only when it is a step of a goroutine that handles an
\* update of that user.
C29_UsersIndependent ==
    [][\A a \in TwoUsers :
          (\/ rate_limits'[a] # rate_limits[a]
           \/ users'[a] # users[a]
           \/ user_sessions'[a] # user_sessions[a])
          => \E p \in Slots : /\ proc'[p] # proc[p]
                              /\ Running(proc[p]) /\ proc[p].user = a]_vars

\* an update of user 2 was handled and changed user 2's row while user 1 was
\* in a scenario with counted messages
C29_Witness ==
    \E p \in Slots :
        /\ proc[p].pc = "done" /\ proc[p].user = 2 /\ proc[p].path = "handleEmailConfirm"
        /\ users[2].fsm_state = StateAwaitingEmailConsent
        /\ users[1].exists /\ users[1].fsm_state = StateIdle /\ users[1].message_count = 2
        /\ user_sessions[1].exists /\ ~user_sessions[2].exists

\* C2: a text message that finds the user in Idle and brings message_count to
\* the trigger threshold it reads moves the overlay to OfferingSiteLink,
\* resets message_count to 0, sends the offer and nothing else, and leaves
\* the session as it was.
C2_ThresholdOffer ==
    \A p \in TextProcessed :
        LET e == proc[p] IN
        (/\ e.pre.user.fsm_state = StateIdle
         /\ e.pre.user.message_count + 1 >= e.trigger)
        => /\ e.path = "offerSiteLink"
           /\ e.post.user.fsm_state = StateOfferingSiteLink
           /\ e.post.user.message_count = 0
           /\ e.post.session = e.pre.session
           /\ e.out = <<SiteLinkOffer>>

\* a threshold offer interrupted a text that would have started a scenario,
\* for a user who had a session, at a threshold below the default
C2_Witness ==
    \E p \in TextProcessed :
        /\ proc[p].path = "offerSiteLink" /\ proc[p].data = <<TextSaw>>
        /\ proc[p].trigger < TriggerMessageCount
        /\ proc[p].pre.user.message_count + 1 = proc[p].trigger
        /\ proc[p].pre.session = Session(1, <<"root">>)
        /\ proc[p].post.session = proc[p].pre.session
        /\ proc[p].post.user.fsm_state = StateOfferingSiteLink

\* the site-link offers the goroutine sent, the resets it made
OffersSent(e) == Cardinality({i \in DOMAIN e.out : e.out[i] = SiteLinkOffer})
ResetsMade(e) == Cardinality({i \in DOMAIN e.wrote : e.wrote[i] = "ResetUserMessageCount"})

\* the updates in the two slots were handled side by side for one user, both
\* were counted, and one of them found the count at the threshold
BothCountedAcross ==
    /\ \A p \in Slots : /\ proc[p].pc = "done" /\ ~proc[p].alone
                        /\ proc[p].kind \in {"message", "callback"}
                        /\ proc[p].path \notin {"rejected", "failed", "no user"}
    /\ proc[1].user = proc[2].user
    /\ \E p \in Slots : proc[p].path = "offerSiteLink"

\* C38: when two events of one user are processed concurrently and the
\* message count crosses the threshold, the site-link offer is sent exactly
\* once, message_count is reset once, and once both events are done
\* message_count counts at most the other event.
C38_OneOfferOneReset ==
    BothCountedAcross
    => /\ OffersSent(proc[1]) + OffersSent(proc[2]) = 1
       /\ ResetsMade(proc[1]) + ResetsMade(proc[2]) = 1
       /\ users[proc[1].user].message_count <= 1

\* C39: consent_granted = true is stored only for the address that is in
\* storage at the moment the consent is applied: no step that writes a users
\* row with consent_granted = true changes the address stored in it.
C39_ConsentForStoredAddress ==
    [][\A u \in DOMAIN users :
          (users'[u] # users[u] /\ users'[u].consent_granted)
          => users'[u].email = users[u].email]_vars

\* C14: GetPreviousStepKey drops the last underscore-delimited segment and
\* returns the rest, and returns "root" when the key has one segment or the
\* rest is empty or is "root".
C14_PreviousStepKey ==
    ev.path = "GetPreviousStepKey" =>
        LET rest == SubSeq(ev.data, 1, Len(ev.data) - 1) IN
        ev.out = << IF Len(ev.data) = 1 \/ rest = <<"">> \/ rest = <<"root">>
                    THEN <<"root">> ELSE rest >>

\* the parent of a_b_no is a_b
C14_Witness ==
    /\ ev.path = "GetPreviousStepKey" /\ ev.data = <<"a", "b", "no">>
    /\ ev.out = << <<"a", "b">> >>

\* C23: GetFirstStep returns the step with key "root" whenever the list has
\* one, whatever its position, and the step it returns is not final and has
\* state_type start.
C23_FirstStepIsRoot ==
    (ev.path = "GetFirstStep" /\ \E i \in DOMAIN ev.data : ev.data[i].step_key = <<"root">>)
    => /\ ev.out[1].step_key = <<"root">>
       /\ ~ev.out[1].is_final
       /\ ev.out[1].state_type = "start"

\* C25: for a step with state_type final GenerateButtonsForStep returns exactly
\* one button, and its callback data is back_<scenarioID>_<stepKey> with the
\* step's own key.
C25_FinalStepBackOnly ==
    (ev.path = "GenerateButtonsForStep" /\ ev.data[1].state_type = "final")
    => /\ Len(ev.out[1]) = 1
       /\ ev.out[1][1] =
            <<"back", Digits[ev.data[1].scenario_id + 1]>> \o ev.data[1].step_key

\* the buttons of the final step no_power_indicator_lit_no_reaction of
\* scenario 1
C25_Witness ==
    /\ ev.path = "GenerateButtonsForStep"
    /\ ev.data[1].state_type = "final" /\ ev.data[1].scenario_id = 1
    /\ ev.data[1].step_key = <<"no", "power", "indicator", "lit", "no", "reaction">>
    /\ ev.out = << << <<"back", "1", "no", "power", "indicator", "lit", "no", "reaction">> >> >>

\* a string without its surrounding whitespace
Trimmed(cs) ==
    LET inked == {i \in 1..Len(cs) : cs[i] # " "}
    IN IF inked = {} THEN <<>>
       ELSE LET from == CHOOSE i \in inked : \A j \in inked : i <= j
                to == CHOOSE i \in inked : \A j \in inked : j <= i
            IN [k \in 1..(to - from + 1) |-> cs[from + k - 1]]

\* the trimmed argument of the call, the places of its at-signs, the place of
\* the first of them and of the last dot after it (0 when there is none)
EmailParts ==
    LET t == Trimmed(ev.data)
        ats == {i \in 1..Len(t) : t[i] = "@"}
        at == IF ats = {} THEN 0 ELSE CHOOSE i \in ats : \A j \in ats : i <= j
        dots == {i \in (at + 1)..Len(t) : t[i] = "."}
        dot == IF dots = {} THEN 0 ELSE CHOOSE i \in dots : \A j \in dots : j <= i
    IN [t |-> t, ats |-> ats, at |-> at, dot |-> dot]

\* one at-sign, and before it a non-empty local part of letters, digits and ._%+-
OneAtSignAfterLocalPart(p) ==
    /\ Cardinality(p.ats) = 1
    /\ p.at > 1
    /\ \A i \in 1..(p.at - 1) : p.t[i] \in LocalChars

\* the domain has a dot and what follows its last dot is two letters or more
EndsInTLD(p) ==
    /\ p.at > 0 /\ p.dot > 0
    /\ Len(p.t) - p.dot >= 2
    /\ \A i \in (p.dot + 1)..Len(p.t) : p.t[i] \in Letters

\* the claim as the specification words it: IsValidEmail accepts exactly the
\* strings that, trimmed, have one at-sign after a non-empty local part of
\* letters, digits and ._%+-, and a domain that contains a dot and ends in a
\* TLD of at least two letters
C30_OriginalGrammar ==
    ev.path = "IsValidEmail" =>
        LET p == EmailParts
        IN ev.out[1] <=> (OneAtSignAfterLocalPart(p) /\ EndsInTLD(p))

\* C30: IsValidEmail accepts exactly the strings that, trimmed, have one
\* at-sign after a non-empty local part of letters, digits and ._%+-, and a
\* domain made of a non-empty run of letters, digits, dots and hyphens, then a
\* dot, then a TLD of at least two letters; the empty string, a string without
\* an at-sign, an empty local part, an empty domain and a domain without a dot
\* are rejected.
C30_EmailGrammar ==
    ev.path = "IsValidEmail" =>
        LET p == EmailParts
        IN /\ ev.out[1] <=>
                 /\ OneAtSignAfterLocalPart(p)
                 /\ EndsInTLD(p)
                 /\ p.dot > p.at + 1
                 /\ \A i \in (p.at + 1)..(p.dot - 1) : p.t[i] \in DomainChars
           /\ (\/ p.t = <<>>
               \/ p.ats = {}
               \/ p.at = 1
               \/ p.at = Len(p.t)
               \/ p.dot = 0) => ~ev.out[1]

\* an address with surrounding whitespace and a digit in its domain is accepted
C30_Witness ==
    /\ ev.path = "IsValidEmail"
    /\ ev.data = <<" ", "a", "@", "1", ".", "a", "a">>
    /\ ev.out = <<TRUE>>

\* the steps of a scenario below a key whose suffix has a button text, in the
\* order of their ids
LabelledBelow(scenarioID, key) ==
    LET steps == GetFSMScenarioSteps(scenarioID)
        below(st) == /\ Len(st.step_key) > Len(key)
                     /\ \A i \in 1..Len(key) : st.step_key[i] = key[i]
                     /\ [i \in 1..(Len(st.step_key) - Len(key)) |-> st.step_key[Len(key) + i]]
                           \in KnownSuffixes
    IN SelectSeq(steps, below)

\* C33: for a step with state_type intermediate the buttons are one goto
\* button per step of the scenario whose key begins with the step's key and an
\* underscore and whose suffix has a button text, each with the full key of
\* its step, and then the Back button of the step as the last button, which
\* is there also when no other button is.
C33_IntermediateButtons ==
    (ev.path = "GenerateButtonsForStep" /\ ev.data[1].state_type = "intermediate")
    => LET step == ev.data[1]
           below == LabelledBelow(step.scenario_id, step.step_key)
       IN ev.out[1] =
            [i \in 1..(Len(below) + 1) |->
                IF i <= Len(below)
                THEN <<"goto">> \o Itoa(step.scenario_id) \o below[i].step_key
                ELSE <<"back">> \o Itoa(step.scenario_id) \o step.step_key]

\* step no_power_indicator_lit of scenario 1 gets the goto buttons of reacts
\* and no_reaction and then its Back button
C33_Witness ==
    /\ ev.path = "GenerateButtonsForStep"
    /\ ev.data[1].state_type = "intermediate"
    /\ ev.data[1].scenario_id = 1
    /\ ev.data[1].step_key = <<"no", "power", "indicator", "lit">>
    /\ ev.out[1] = << <<"goto", "1", "no", "power", "indicator", "lit", "reacts">>,
                      <<"goto", "1", "no", "power", "indicator", "lit", "no", "reaction">>,
                      <<"back", "1", "no", "power", "indicator", "lit">> >>

\* C34: for every stored step other than a root, the key GetPreviousStepKey
\* derives from its key (the key without its last segment) is root or the key
\* of a stored step of the same scenario.
C34_ParentIsStored ==
    ev.path = "GetPreviousStepKey" =>
        \A i \in 1..Len(FSMSteps) :
            (FSMSteps[i].step_key = ev.data /\ ev.data # <<"root">>)
            => \/ ev.out[1] = <<"root">>
               \/ GetFSMScenarioStep(FSMSteps[i].scenario_id, ev.out[1]) # NoStep
====
